---- MODULE Spec2Model ----
(***************************************************************************)
(* Model of the Dynamixel / LUCI servo command layer:                      *)
(*   robot_servo_control.py      (RobotServoController, TCP gateway)       *)
(*   robot_servo_control_usb.py  (RobotServoControllerUSB, serial gateway) *)
(*   ls5_servo_control.py        (standalone script: two WRITE frames)     *)
(*   ls6_logs_reader.py          (log window: reader thread, search)       *)
(*   ls6_servo_control_integrated.py (log window and servo test sequence)  *)
(* Byte strings are sequences of integers in 0..255.  A Python call that   *)
(* can raise is modelled by a record [exc, val]: exc = "none" when the     *)
(* call returns val, otherwise the name of the exception it raises.        *)
(***************************************************************************)
EXTENDS Integers, Sequences, FiniteSets, TLC

VARIABLES
    kind,       \* which controller class the object is: "tcp" or "usb"
    connected,  \* self.connected
    socket,     \* self.socket / self.ser: index into handles, 0 = None
    handles,    \* every transport handle created so far: [open, up, log]
    link,       \* history: "never", "up", "failed" or "closed" (see connect)
    args,       \* the arguments the caller passes to the facade calls
    last,       \* the last call: [op, link, positions, ret, packet, wrote, delay]
    pc,         \* the position of a script, or the handler the main thread is in
    pending,    \* command sequences: the values the running loop has yet to take
    stop,       \* command sequences: the user has asked for the sequence to stop
    call,       \* codec specifications: the function applied and its inputs
    result,     \* codec specifications: what the function returned
    ser,            \* log window: self.ser, index into ports, 0 = None
    ports,          \* log window: is_open of every serial.Serial created so far
    is_connected,   \* log window: self.is_connected
    stop_reading,   \* log window: self.stop_reading
    threads,        \* log window: every reader thread started so far: [pc]
    wire,           \* log window: the bytes of the line the device sends
    lastread,       \* log window: the latest readline call: [thread, line, raised]
    posted,         \* log window: the callbacks handed to root.after and not yet run
    logs_text,      \* log window: the characters of the logs_text widget
    search_entry,   \* log window: the characters of the search entry
    case_var,       \* log window: the case-sensitive checkbox
    search_matches,        \* log window: self.search_matches, (pos, end_pos) pairs
    current_match_index    \* log window: self.current_match_index

seqVars == <<pending, stop>>
readerVars == <<ser, ports, is_connected, stop_reading, threads, wire, lastread, posted>>
searchVars == <<logs_text, search_entry, case_var, search_matches, current_match_index>>

vars == <<kind, connected, socket, handles, link, args, last, pc, call, result,
          seqVars, readerVars, searchVars>>

ctlVars == <<kind, connected, socket, handles, link, args, last, pc>>
codecVars == <<call, result>>
uiVars == <<seqVars, readerVars, searchVars>>

----------------------------------------------------------------------------
(* Bounds of the model *)

MaxMotors == 2      \* longest motor_ids / motor_data list given to the frame builders
MaxDataLen == 2     \* longest per-motor data string given to the frame builder
WrapDataLen == 253  \* a WRITE payload long enough for len(params) + 2 to pass 255
MaxDeg == 400       \* degrees inputs range over -MaxDeg..MaxDeg (and +-10000)
PairStep == 15      \* spacing of the degrees used in pairs (a, b)
MaxLen == 2         \* longest argument list given to send_servo_positions
MaxHandles == 2     \* connect() calls made in one run
MaxLogLines == 9    \* lines the servo panel writes into the log
MaxWrites == 1      \* writes recorded per transport handle
MaxAngle == 100     \* the script's desired_angle ranges over 0..MaxAngle
MaxLine == 3         \* bytes in one line read from the log port
MaxPorts == 2        \* serial ports the log window opens in one run
MaxPosted == 1       \* callbacks of the reader threads that wait for the main loop
MaxBatch == 60       \* motors in one SYNC_WRITE batch
MaxEntries == 2      \* messages in the log widget
MaxTerm == 2         \* characters in the search entry

----------------------------------------------------------------------------
(* Program constants *)

MOTORTYPE_AX12 == 0
MOTORTYPE_AX18 == 1
MOTORTYPE_MX28 == 2
MOTORTYPE_MX64 == 3
MOTORTYPE_MX106 == 4
MOTORTYPE_XL320 == 5

BAUDRATES == <<2000000, 1000000, 500000, 222222, 117647, 100000, 57142, 9615>>

GOAL_POSITION_ADDR == 30

INSTR_WRITE == 3
INSTR_SYNC_WRITE == 131   \* 0x83
BROADCAST_ID == 254       \* 0xFE

register_packet == <<0, 0, 2, 3, 0, 0, 0, 0, 0, 0>>

SEND_DELAY_MS == 35        \* time.sleep(0.035) after a command is written
CONNECT_DELAY_MS == 500    \* time.sleep(0.5) in connect

----------------------------------------------------------------------------
(* Helpers *)

IsByte(x) == x \in 0..255

Min(S) == CHOOSE x \in S : \A y \in S : x <= y

RECURSIVE SumSeq(_)
SumSeq(s) ==
    IF Len(s) = 0 THEN 0
    ELSE IF Len(s) = 1 THEN s[1]
    ELSE LET m == Len(s) \div 2
         IN  SumSeq(SubSeq(s, 1, m)) + SumSeq(SubSeq(s, m + 1, Len(s)))

\* int(x) for the rational x = num / den, den > 0: truncation toward zero
TruncDiv(num, den) == IF num >= 0 THEN num \div den ELSE -((-num) \div den)

\* round(x) for the rational x = num / den, den > 0: nearest, ties to even
RoundHalfEven(num, den) ==
    LET fl == num \div den
        twice == 2 * (num - fl * den)
    IN  IF twice < den THEN fl
        ELSE IF twice > den THEN fl + 1
        ELSE IF fl % 2 = 0 THEN fl ELSE fl + 1

Returned(v) == [exc |-> "none", val |-> v]
Raised(e) == [exc |-> e, val |-> <<>>]
Pending == [exc |-> "pending", val |-> <<>>]

----------------------------------------------------------------------------
(* Codec: little-endian words, baud table, bus frames, envelopes *)

\* struct.pack('<H', value & 0xFFFF)
get_little_endian_bytes(value) ==
    LET v == value % 65536 IN <<v % 256, v \div 256>>

\* bytes([x & 0xFF, (x >> 8) & 0xFF])
get_lh_bytes(x) == <<x % 256, (x \div 256) % 256>>

\* list.index: 0-based position of the first occurrence
IndexOf(seq, x) == Min({i \in 1..Len(seq) : seq[i] = x}) - 1

get_baud_rate_index_first(baud_rate) ==
    IF \E i \in 1..Len(BAUDRATES) : BAUDRATES[i] = baud_rate
    THEN IndexOf(BAUDRATES, baud_rate)
    ELSE 0

get_baud_rate_index(baud_rate) ==
    IF \E i \in 1..Len(BAUDRATES) : BAUDRATES[i] = baud_rate
    THEN IndexOf(BAUDRATES, baud_rate)
    ELSE IndexOf(BAUDRATES, 57142)

sync_packet_length_noid(data_length, num_motors) == data_length * num_motors + 4

\* packet_length = (data_length + 1) * num_motors + 4
sync_packet_length(data_length, num_motors) == (data_length + 1) * num_motors + 4

dxl_checksum_nocomplement(crc) == crc % 256

\* crc = (255 - (crc & 0xFF)) & 0xFF
dxl_checksum(crc) == (255 - (crc % 256)) % 256

\* the for loop over motor_ids: id byte, then the motor's data bytes
RECURSIVE sync_body(_, _, _)
sync_body(motor_ids, motor_data, i) ==
    IF i > Len(motor_ids) THEN <<>>
    ELSE <<motor_ids[i]>> \o motor_data[i] \o sync_body(motor_ids, motor_data, i + 1)

\* the first exception the loop raises: bytearray.append of a value outside
\* 0..255 (ValueError) or motor_data[i] past the end of the list (IndexError)
sync_body_exc(motor_ids, motor_data) ==
    LET bad == {i \in 1..Len(motor_ids) :
                  ~IsByte(motor_ids[i]) \/ i > Len(motor_data)}
    IN  IF bad = {} THEN "none"
        ELSE IF ~IsByte(motor_ids[Min(bad)]) THEN "ValueError" ELSE "IndexError"

create_dynamixel_sync_write_packet_wraplen(motor_ids, motor_data, start_address, data_length) ==
    LET num_motors == Len(motor_ids)
        packet_length == sync_packet_length(data_length, num_motors) % 256
        header == <<255, 255, BROADCAST_ID, packet_length, INSTR_SYNC_WRITE,
                    start_address, data_length>>
    IN  IF ~(IsByte(start_address) /\ IsByte(data_length))
        THEN Raised("ValueError")
        ELSE IF sync_body_exc(motor_ids, motor_data) # "none"
        THEN Raised(sync_body_exc(motor_ids, motor_data))
        ELSE LET body == sync_body(motor_ids, motor_data, 1)
                 crc == BROADCAST_ID + packet_length + INSTR_SYNC_WRITE
                        + start_address + data_length + SumSeq(body)
             IN  Returned(header \o body \o <<dxl_checksum(crc)>>)

create_dynamixel_sync_write_packet(motor_ids, motor_data, start_address, data_length) ==
    LET num_motors == Len(motor_ids)
        packet_length == sync_packet_length(data_length, num_motors)
        header == <<255, 255, BROADCAST_ID, packet_length, INSTR_SYNC_WRITE,
                    start_address, data_length>>
    IN  IF ~(IsByte(packet_length) /\ IsByte(start_address) /\ IsByte(data_length))
        THEN Raised("ValueError")
        ELSE IF sync_body_exc(motor_ids, motor_data) # "none"
        THEN Raised(sync_body_exc(motor_ids, motor_data))
        ELSE LET body == sync_body(motor_ids, motor_data, 1)
                 crc == BROADCAST_ID + packet_length + INSTR_SYNC_WRITE
                        + start_address + data_length + SumSeq(body)
             IN  Returned(header \o body \o <<dxl_checksum(crc)>>)

build_write_packet_shortlen(servo_id, address, data) ==
    IF ~IsByte(address) THEN Raised("ValueError")
    ELSE LET params == <<address>> \o data
             length == Len(params) + 1
             checksum_val == (servo_id + length + INSTR_WRITE + SumSeq(params)) % 256
         IN  Returned(<<255, 255, servo_id % 256, length % 256, INSTR_WRITE>>
                      \o params \o <<(255 - checksum_val) % 256>>)

build_write_packet(servo_id, address, data) ==
    IF ~IsByte(address) THEN Raised("ValueError")
    ELSE LET params == <<address>> \o data
             length == Len(params) + 2
             checksum_val == (servo_id + length + INSTR_WRITE + SumSeq(params)) % 256
             checksum == (255 - checksum_val) % 256
         IN  Returned(<<255, 255, servo_id % 256, length % 256, INSTR_WRITE>>
                      \o params \o <<checksum>>)

create_luci_uart_packet_nozero(baud_rate, uart_packet) ==
    <<get_baud_rate_index(baud_rate)>> \o uart_packet

\* bytearray([0, baud_index]) followed by the bus frame
create_luci_uart_packet(baud_rate, uart_packet) ==
    <<0, get_baud_rate_index(baud_rate)>> \o uart_packet

create_luci_packet_len4(module_number, mode, packet0) ==
    IF mode = 4 \/ mode = 5 THEN Returned(<<0, 0, 2>>)
    ELSE IF ~IsByte(mode) THEN Raised("ValueError")
    ELSE Returned(<<0, 0, 2>>
                  \o get_little_endian_bytes(module_number)
                  \o <<0, 0, 0>>
                  \o get_little_endian_bytes(Len(packet0) + 4)
                  \o <<mode>>
                  \o get_little_endian_bytes(Len(packet0))
                  \o get_little_endian_bytes(0)
                  \o packet0)

create_luci_packet(module_number, mode, packet0) ==
    IF mode = 4 \/ mode = 5 THEN Returned(<<0, 0, 2>>)
    ELSE IF ~IsByte(mode) THEN Raised("ValueError")
    ELSE Returned(<<0, 0, 2>>
                  \o get_little_endian_bytes(module_number)
                  \o <<0, 0, 0>>
                  \o get_little_endian_bytes(Len(packet0) + 5)
                  \o <<mode>>
                  \o get_little_endian_bytes(Len(packet0))
                  \o get_little_endian_bytes(0)
                  \o packet0)

\* header [0, 0, 2, mb lo, mb hi, 0, 0, 0, len lo, len hi], then the payload
create_luci_general_packet(mbnum, payload) ==
    <<0, 0, 2>> \o get_lh_bytes(mbnum) \o <<0, 0, 0>>
    \o get_lh_bytes(Len(payload)) \o payload

----------------------------------------------------------------------------
(* Unit converter *)

degrees_to_motor_value_wrap10(degrees, motor_type, is_position) ==
    IF motor_type \in {MOTORTYPE_AX12, MOTORTYPE_AX18}
    THEN IF is_position THEN TruncDiv(degrees * 1023, 300) % 1024
                        ELSE TruncDiv(degrees * 1023, 114) % 1024
    ELSE IF is_position THEN TruncDiv(degrees * 4095, 360) % 4096
                        ELSE TruncDiv(degrees * 1023, 117) % 1024

\* int((degrees / 300.0) * 1023.0) and its three siblings
degrees_to_motor_value(degrees, motor_type, is_position) ==
    IF motor_type \in {MOTORTYPE_AX12, MOTORTYPE_AX18}
    THEN IF is_position THEN TruncDiv(degrees * 1023, 300)
                        ELSE TruncDiv(degrees * 1023, 114)
    ELSE IF is_position THEN TruncDiv(degrees * 4095, 360)
                        ELSE TruncDiv(degrees * 1023, 117)

\* max(0, min(1023, round((angle_deg / 300.0) * 1023.0)))
angle_deg_to_ax_position(angle_deg) ==
    LET pos == RoundHalfEven(angle_deg * 1023, 300)
        lo == IF pos < 1023 THEN pos ELSE 1023
    IN  IF lo > 0 THEN lo ELSE 0

motor_data_entry_velfirst(position_degrees, velocity_rpm, motor_type) ==
    get_little_endian_bytes(degrees_to_motor_value(velocity_rpm, motor_type, FALSE))
    \o get_little_endian_bytes(degrees_to_motor_value(position_degrees, motor_type, TRUE))

\* one pass of the loop of send_servo_positions: pos_bytes + vel_bytes
motor_data_entry(position_degrees, velocity_rpm, motor_type) ==
    get_little_endian_bytes(degrees_to_motor_value(position_degrees, motor_type, TRUE))
    \o get_little_endian_bytes(degrees_to_motor_value(velocity_rpm, motor_type, FALSE))

----------------------------------------------------------------------------
(* Inputs of the codec specification *)

SeqsUpTo(S, n) == UNION {[1..k -> S] : k \in 0..n}

IdInputs == {1, 255, 256}
AddrInputs == {4, GOAL_POSITION_ADDR, 256}
ServoIdInputs == {0, 1, 254, 255}

\* data strings: prefixes of two fixed byte patterns (8, 108, 208, 52, ... and
\* 255, 254, ...), so that neighbouring bytes differ
DataPatternA(k) == [j \in 1..k |-> (8 + 100 * (j - 1)) % 256]
DataPatternB(k) == [j \in 1..k |-> 256 - j]
DataInputs == {DataPatternA(k) : k \in 0..MaxDataLen} \cup {DataPatternB(k) : k \in 0..MaxDataLen}
LongData == [j \in 1..WrapDataLen |-> 0]

MotorTypes == MOTORTYPE_AX12..MOTORTYPE_XL320
DegInputs == (-MaxDeg..MaxDeg) \cup {-10000, 10000}
RpmInputs == {-5, 30, 200}
PairDegs == {d \in -MaxDeg..MaxDeg : d % PairStep = 0} \cup {-10000, 10000}

SyncCalls == [op : {"create_dynamixel_sync_write_packet"},
              motor_ids : SeqsUpTo(IdInputs, MaxMotors),
              motor_data : SeqsUpTo(DataInputs, MaxMotors),
              start_address : AddrInputs,
              data_length : 0..MaxDataLen]

\* batches of n distinct ids from 1..252, counted up from 1 or down from 252,
\* each motor with the four bytes of a position and a velocity
BatchCalls ==
    {[op |-> "create_dynamixel_sync_write_packet",
      motor_ids |-> [i \in 1..n |-> IF up THEN i ELSE 253 - i],
      motor_data |-> [i \in 1..n |-> motor_data_entry(3 * i, 30, MOTORTYPE_AX12)],
      start_address |-> GOAL_POSITION_ADDR,
      data_length |-> 4] : n \in 1..MaxBatch, up \in BOOLEAN}

WriteCalls == [op : {"build_write_packet"},
               servo_id : ServoIdInputs,
               address : AddrInputs,
               data : DataInputs \cup {LongData}]

ValueCalls == [op : {"degrees_to_motor_value"},
               degrees : DegInputs, motor_type : MotorTypes, is_position : BOOLEAN]

EntryCalls == [op : {"motor_data_entry"},
               position_degrees : DegInputs, velocity_rpm : RpmInputs,
               motor_type : MotorTypes]

AxCalls == [op : {"angle_deg_to_ax_position"}, angle_deg : DegInputs]

ValuePairCalls == {c \in [op : {"degrees_to_motor_value_pair"},
                          a : PairDegs, b : PairDegs, motor_type : MotorTypes] : c.a <= c.b}

AxPairCalls == {c \in [op : {"angle_deg_to_ax_position_pair"},
                       a : PairDegs, b : PairDegs] : c.a <= c.b}

\* envelope inputs: module numbers on both sides of one byte, byte-valued
\* modes with the two short-form ones, baud rates inside and outside the table
ModuleInputs == {0, 254, 256, 65535}
ModeInputs == {0, 1, 4, 5, 255}
BaudInputs == {BAUDRATES[i] : i \in 1..Len(BAUDRATES)} \cup {0, 57600, 4000000}

\* bus frames given to the envelope builders: WRITE frames, and SYNC_WRITE
\* frames for one motor
FrameInputs ==
    {build_write_packet(servo_id, GOAL_POSITION_ADDR, data).val :
        servo_id \in ServoIdInputs, data \in DataInputs \cup {LongData}}
    \cup {create_dynamixel_sync_write_packet(<<1>>, <<data>>, GOAL_POSITION_ADDR,
                                             Len(data)).val : data \in DataInputs}

BaudCalls == [op : {"get_baud_rate_index"}, baud_rate : BaudInputs]

UartCalls == [op : {"create_luci_uart_packet"},
              baud_rate : BaudInputs, uart_packet : FrameInputs]

EnvelopeCalls == [op : {"create_luci_packet"},
                  module_number : ModuleInputs, mode : ModeInputs,
                  packet0 : DataInputs \cup
                            {create_luci_uart_packet(57142, f) : f \in FrameInputs}]

GeneralCalls == [op : {"create_luci_general_packet"},
                 mbnum : ModuleInputs, payload : FrameInputs]

----------------------------------------------------------------------------
(* The controller object before any call: __init__ *)

\* last.packet is the byte string handed to the transport's write call,
\* last.wrote the bytes the transport took, last.delay the milliseconds slept
\* after the write
NoCall == [op |-> "none", link |-> "never", positions |-> <<>>, ret |-> "None",
           packet |-> <<>>, wrote |-> <<>>, delay |-> 0]
NoArgs == [motor_ids |-> <<>>, motor_types |-> <<>>, positions_degrees |-> <<>>,
           velocities_rpm |-> <<>>, baud_rate |-> 57142]

\* no command sequence is running
seq_init ==
    /\ pending = <<>>
    /\ stop = FALSE

\* the log window before any click: no port, no reader thread, nothing read
NoRead == [thread |-> 0, line |-> <<>>, raised |-> FALSE]

reader_init ==
    /\ ser = 0
    /\ ports = <<>>
    /\ is_connected = FALSE
    /\ stop_reading = FALSE
    /\ threads = <<>>
    /\ lastread = NoRead
    /\ posted = <<>>

\* the log window before any click: an empty log, an empty search
search_init ==
    /\ logs_text = <<>>
    /\ search_entry = <<>>
    /\ case_var = FALSE
    /\ search_matches = <<>>
    /\ current_match_index = -1

ui_init ==
    /\ seq_init
    /\ reader_init
    /\ wire = <<>>
    /\ search_init

ctl_init ==
    /\ connected = FALSE
    /\ socket = 0
    /\ handles = <<>>
    /\ link = "never"
    /\ last = NoCall
    /\ pc = "none"

----------------------------------------------------------------------------
(* Command facade and transport: RobotServoController (kind = "tcp") and   *)
(* RobotServoControllerUSB (kind = "usb")                                  *)

Prefix(p, n) == SubSeq(p, 1, n)

\* Argument lists are prefixes, of independent lengths, of one of three
\* patterns: AX motors 1, 2, ..; MX motors with negative angles and a baud
\* rate outside the table; motor ids that do not fit in a byte.
ArgPatterns ==
    { [ids |-> [i \in 1..MaxLen |-> i],
       types |-> [i \in 1..MaxLen |-> MOTORTYPE_AX12],
       pos |-> [i \in 1..MaxLen |-> 90 + 60 * (i - 1)],
       vel |-> [i \in 1..MaxLen |-> 30],
       baud |-> 57142],
      [ids |-> [i \in 1..MaxLen |-> 10 + i],
       types |-> [i \in 1..MaxLen |-> MOTORTYPE_MX28],
       pos |-> [i \in 1..MaxLen |-> -10 * i],
       vel |-> [i \in 1..MaxLen |-> 200],
       baud |-> 4000000],
      [ids |-> [i \in 1..MaxLen |-> 255 + i],
       types |-> [i \in 1..MaxLen |-> MOTORTYPE_AX18],
       pos |-> [i \in 1..MaxLen |-> 150],
       vel |-> [i \in 1..MaxLen |-> 30],
       baud |-> 1000000] }

ArgInputs ==
    { [motor_ids |-> Prefix(p.ids, n[1]),
       motor_types |-> Prefix(p.types, n[2]),
       positions_degrees |-> Prefix(p.pos, n[3]),
       velocities_rpm |-> Prefix(p.vel, n[4]),
       baud_rate |-> p.baud] :
      p \in ArgPatterns, n \in [1..4 -> 0..MaxLen] }

Twelve(angle) == [i \in 1..12 |-> angle]

\* what the caller passes as positions_degrees to send_all_servos
AllPositionsInputs == {args.positions_degrees, Twelve(90), Twelve(150)}

neutral_positions_flat == <<150, 150, 150, 150, 150, 150, 150, 150, 150, 150, 150, 150>>

neutral_positions == <<150, 90, 150, 150, 210, 150, 150, 90, 150, 150, 210, 150>>

\* len(motor_ids) != len(motor_types) != len(positions_degrees) != len(velocities_rpm):
\* a chained comparison, the conjunction of the three neighbouring ones
length_mismatch(a) ==
    /\ Len(a.motor_ids) # Len(a.motor_types)
    /\ Len(a.motor_types) # Len(a.positions_degrees)
    /\ Len(a.positions_degrees) # Len(a.velocities_rpm)

send_precheck_noconn(conn, a) ==
    IF length_mismatch(a) THEN "length" ELSE "pass"

\* the two early returns of send_servo_positions
send_precheck(conn, a) ==
    IF ~conn THEN "not_connected"
    ELSE IF length_mismatch(a) THEN "length"
    ELSE "pass"

\* the conversion loop and the three builders of send_servo_positions; the
\* loop indexes the three other lists by the positions of motor_ids
build_command(a) ==
    LET n == Len(a.motor_ids)
    IN  IF n > Len(a.positions_degrees) \/ n > Len(a.motor_types)
           \/ n > Len(a.velocities_rpm)
        THEN Raised("IndexError")
        ELSE LET motor_data == [i \in 1..n |->
                                  motor_data_entry(a.positions_degrees[i],
                                                   a.velocities_rpm[i],
                                                   a.motor_types[i])]
                 dynamixel_packet ==
                     create_dynamixel_sync_write_packet(a.motor_ids, motor_data,
                                                        GOAL_POSITION_ADDR, 4)
             IN  IF dynamixel_packet.exc # "none" THEN dynamixel_packet
                 ELSE create_luci_packet(254, 0,
                          create_luci_uart_packet(a.baud_rate, dynamixel_packet.val))

----------------------------------------------------------------------------
(* The codec of RobotServoControllerUSB (robot_servo_control_usb.py): the  *)
(* class carries its own copy of every builder.  The class constants       *)
(* BAUDRATES, GOAL_POSITION_ADDR and MOTORTYPE_* have the values of the    *)
(* TCP class.                                                              *)

\* struct.pack('<H', value & 0xFFFF)
usb_get_little_endian_bytes(value) ==
    LET v == value % 65536 IN <<v % 256, v \div 256>>

usb_get_baud_rate_index(baud_rate) ==
    IF \E i \in 1..Len(BAUDRATES) : BAUDRATES[i] = baud_rate
    THEN IndexOf(BAUDRATES, baud_rate)
    ELSE IndexOf(BAUDRATES, 57142)

RECURSIVE usb_sync_body(_, _, _)
usb_sync_body(motor_ids, motor_data, i) ==
    IF i > Len(motor_ids) THEN <<>>
    ELSE <<motor_ids[i]>> \o motor_data[i] \o usb_sync_body(motor_ids, motor_data, i + 1)

usb_create_dynamixel_sync_write_packet(motor_ids, motor_data, start_address, data_length) ==
    LET num_motors == Len(motor_ids)
        packet_length == (data_length + 1) * num_motors + 4
        bad == {i \in 1..num_motors : ~IsByte(motor_ids[i]) \/ i > Len(motor_data)}
    IN  IF ~(IsByte(packet_length) /\ IsByte(start_address) /\ IsByte(data_length))
        THEN Raised("ValueError")
        ELSE IF bad # {}
        THEN Raised(IF ~IsByte(motor_ids[Min(bad)]) THEN "ValueError" ELSE "IndexError")
        ELSE LET body == usb_sync_body(motor_ids, motor_data, 1)
                 crc == 254 + packet_length + 131 + start_address + data_length
                        + SumSeq(body)
             IN  Returned(<<255, 255, 254, packet_length, 131, start_address, data_length>>
                          \o body \o <<(255 - (crc % 256)) % 256>>)

usb_create_luci_uart_packet_index_only(baud_rate, uart_packet) ==
    <<usb_get_baud_rate_index(baud_rate)>> \o uart_packet

\* bytearray([0, baud_index]) followed by the bus frame
usb_create_luci_uart_packet(baud_rate, uart_packet) ==
    <<0, usb_get_baud_rate_index(baud_rate)>> \o uart_packet

usb_create_luci_packet(module_number, mode, packet0) ==
    IF mode = 4 \/ mode = 5 THEN Returned(<<0, 0, 2>>)
    ELSE IF ~IsByte(mode) THEN Raised("ValueError")
    ELSE Returned(<<0, 0, 2>>
                  \o usb_get_little_endian_bytes(module_number)
                  \o <<0, 0, 0>>
                  \o usb_get_little_endian_bytes(Len(packet0) + 5)
                  \o <<mode>>
                  \o usb_get_little_endian_bytes(Len(packet0))
                  \o usb_get_little_endian_bytes(0)
                  \o packet0)

usb_degrees_to_motor_value(degrees, motor_type, is_position) ==
    IF motor_type \in {MOTORTYPE_AX12, MOTORTYPE_AX18}
    THEN IF is_position THEN TruncDiv(degrees * 1023, 300)
                        ELSE TruncDiv(degrees * 1023, 114)
    ELSE IF is_position THEN TruncDiv(degrees * 4095, 360)
                        ELSE TruncDiv(degrees * 1023, 117)

\* the conversion loop and the three builders of send_servo_positions
usb_build_command(a) ==
    LET n == Len(a.motor_ids)
    IN  IF n > Len(a.positions_degrees) \/ n > Len(a.motor_types)
           \/ n > Len(a.velocities_rpm)
        THEN Raised("IndexError")
        ELSE LET motor_data == [i \in 1..n |->
                     usb_get_little_endian_bytes(
                         usb_degrees_to_motor_value(a.positions_degrees[i],
                                                    a.motor_types[i], TRUE))
                     \o usb_get_little_endian_bytes(
                         usb_degrees_to_motor_value(a.velocities_rpm[i],
                                                    a.motor_types[i], FALSE))]
                 dynamixel_packet ==
                     usb_create_dynamixel_sync_write_packet(a.motor_ids, motor_data,
                                                            GOAL_POSITION_ADDR, 4)
             IN  IF dynamixel_packet.exc # "none" THEN dynamixel_packet
                 ELSE usb_create_luci_packet(254, 0,
                          usb_create_luci_uart_packet(a.baud_rate, dynamixel_packet.val))

\* send_servo_positions builds its packet with the builders of its own class
class_build_command(a) ==
    IF kind = "usb" THEN usb_build_command(a) ELSE build_command(a)

----------------------------------------------------------------------------
(* Codec specification: one pure function applied to one input *)

\* the four lists of one length, the baud rate ranging over BaudInputs
CommandCalls ==
    {[op |-> "build_command", a |-> [x EXCEPT !.baud_rate = b]] :
        x \in {y \in ArgInputs : Cardinality({Len(y.motor_ids), Len(y.motor_types),
                                              Len(y.positions_degrees),
                                              Len(y.velocities_rpm)}) = 1},
        b \in BaudInputs}

\* the same argument lists handed to the USB class
UsbCommandCalls == {[c EXCEPT !.op = "usb_build_command"] : c \in CommandCalls}

InitCodec ==
    /\ kind = "tcp"
    /\ ctl_init
    /\ ui_init
    /\ args = NoArgs
    /\ result = Pending
    /\ \/ call \in SyncCalls
       \/ call \in BatchCalls
       \/ call \in WriteCalls
       \/ call \in ValueCalls
       \/ call \in EntryCalls
       \/ call \in AxCalls
       \/ call \in ValuePairCalls
       \/ call \in AxPairCalls
       \/ call \in BaudCalls
       \/ call \in UartCalls
       \/ call \in EnvelopeCalls
       \/ call \in GeneralCalls
       \/ call \in CommandCalls
       \/ call \in UsbCommandCalls

Apply(opname, value) ==
    /\ call.op = opname
    /\ result.exc = "pending"
    /\ result' = value
    /\ UNCHANGED <<call, ctlVars, uiVars>>

BuildSyncWrite ==
    Apply("create_dynamixel_sync_write_packet",
          create_dynamixel_sync_write_packet(call.motor_ids, call.motor_data,
                                             call.start_address, call.data_length))

BuildWrite ==
    Apply("build_write_packet",
          build_write_packet(call.servo_id, call.address, call.data))

ConvertValue ==
    Apply("degrees_to_motor_value",
          Returned(degrees_to_motor_value(call.degrees, call.motor_type, call.is_position)))

ConvertEntry ==
    Apply("motor_data_entry",
          Returned(motor_data_entry(call.position_degrees, call.velocity_rpm,
                                    call.motor_type)))

ConvertAx ==
    Apply("angle_deg_to_ax_position", Returned(angle_deg_to_ax_position(call.angle_deg)))

ConvertValuePair ==
    Apply("degrees_to_motor_value_pair",
          Returned(<<degrees_to_motor_value(call.a, call.motor_type, TRUE),
                     degrees_to_motor_value(call.b, call.motor_type, TRUE)>>))

ConvertAxPair ==
    Apply("angle_deg_to_ax_position_pair",
          Returned(<<angle_deg_to_ax_position(call.a), angle_deg_to_ax_position(call.b)>>))

ResolveBaud ==
    Apply("get_baud_rate_index", Returned(get_baud_rate_index(call.baud_rate)))

WrapUart ==
    Apply("create_luci_uart_packet",
          Returned(create_luci_uart_packet(call.baud_rate, call.uart_packet)))

WrapLuci ==
    Apply("create_luci_packet",
          create_luci_packet(call.module_number, call.mode, call.packet0))

WrapGeneral ==
    Apply("create_luci_general_packet",
          Returned(create_luci_general_packet(call.mbnum, call.payload)))

BuildCommand == Apply("build_command", build_command(call.a))

BuildCommandUSB == Apply("usb_build_command", usb_build_command(call.a))

NextCodec ==
    \/ BuildSyncWrite
    \/ BuildWrite
    \/ ConvertValue
    \/ ConvertEntry
    \/ ConvertAx
    \/ ConvertValuePair
    \/ ConvertAxPair
    \/ ResolveBaud
    \/ WrapUart
    \/ WrapLuci
    \/ WrapGeneral
    \/ BuildCommand
    \/ BuildCommandUSB

SpecCodec == InitCodec /\ [][NextCodec]_vars

Done(opname) == call.op = opname /\ result.exc # "pending"

----------------------------------------------------------------------------
(* Transport *)

\* the reference held in self.socket / self.ser is dropped by an assignment:
\* the source does not close the object, its finalizer may
Drop(hs, h, finalized) ==
    IF h # 0 /\ finalized THEN [hs EXCEPT ![h].open = FALSE, ![h].up = FALSE] ELSE hs

Finish(opname, positions, r, pkt, bs, ms) ==
    last' = [op |-> opname, link |-> link, positions |-> positions, ret |-> r,
             packet |-> pkt, wrote |-> bs, delay |-> ms]

\* the registration packet goes out by socket.send, whose count the code does
\* not read: "short" and "short_fallback" are the runs where the socket took
\* only a part of it, in the first send or in the fallback send
TcpConnectOutcomes == {"socket_error", "refused", "reg_error", "ok", "ok_fallback",
                       "short", "short_fallback"}
UsbConnectOutcomes == {"open_error", "flush_error", "ok"}

connect_tcp ==
    /\ kind = "tcp"
    /\ Len(handles) < MaxHandles
    /\ \E outcome \in TcpConnectOutcomes, finalized \in BOOLEAN :
        LET ok == outcome \in {"ok", "ok_fallback", "short", "short_fallback"}
            short == outcome \in {"short", "short_fallback"}
            h == [open |-> TRUE, up |-> outcome # "refused",
                  log |-> IF ok THEN <<"reg">> ELSE <<>>]
        IN  /\ IF outcome = "socket_error"
               THEN UNCHANGED <<socket, handles>>
               ELSE /\ socket' = Len(handles) + 1
                    /\ handles' = Append(Drop(handles, socket, finalized), h)
            /\ connected' = ok
            /\ link' = IF ok THEN "up" ELSE "failed"
            /\ Finish("connect", <<>>, IF ok THEN "True" ELSE "False",
                      IF ok \/ outcome = "reg_error" THEN register_packet ELSE <<>>,
                      IF short THEN SubSeq(register_packet, 1, Len(register_packet) - 1)
                      ELSE IF ok THEN register_packet ELSE <<>>,
                      IF ok THEN CONNECT_DELAY_MS ELSE 0)
    /\ UNCHANGED <<kind, args, codecVars>>

connect_usb ==
    /\ kind = "usb"
    /\ Len(handles) < MaxHandles
    /\ \E outcome \in UsbConnectOutcomes, finalized \in BOOLEAN :
        LET ok == outcome = "ok"
            h == [open |-> TRUE, up |-> TRUE, log |-> <<>>]
        IN  /\ IF outcome = "open_error"
               THEN UNCHANGED <<socket, handles>>
               ELSE /\ socket' = Len(handles) + 1
                    /\ handles' = Append(Drop(handles, socket, finalized), h)
            /\ connected' = ok
            /\ link' = IF ok THEN "up" ELSE "failed"
            /\ Finish("connect", <<>>, IF ok THEN "True" ELSE "False", <<>>, <<>>,
                      IF ok THEN CONNECT_DELAY_MS ELSE 0)
    /\ UNCHANGED <<kind, args, codecVars>>

\* the bodies of connect and disconnect; the caller's own position and the
\* window it may own are left to the action that makes the call
Connect == connect_tcp \/ connect_usb

Disconnect ==
    /\ handles' = IF socket # 0
                  THEN [handles EXCEPT ![socket].open = FALSE, ![socket].up = FALSE]
                  ELSE handles
    /\ connected' = FALSE
    /\ link' = IF link = "up" THEN "closed" ELSE link
    /\ Finish("disconnect", <<>>, "None", <<>>, <<>>, 0)
    /\ UNCHANGED <<kind, socket, args, codecVars>>

connect == Connect /\ UNCHANGED <<pc, uiVars>>

disconnect == Disconnect /\ UNCHANGED <<pc, uiVars>>

\* socket.send may take all of the packet, a part of it, or raise;
\* ser.write may raise, and so may the ser.flush after it
WriteOutcomes == IF kind = "tcp" THEN {"ok", "short", "raise"}
                 ELSE {"ok", "raise", "flush_raise"}

Send_retry(opname, a) ==
    LET pre == send_precheck(connected, a)
        cmd == class_build_command(a)
        usable == socket # 0 /\ handles[socket].open /\ handles[socket].up
        Fail(r) == /\ Finish(opname, a.positions_degrees, r, <<>>, <<>>, 0)
                   /\ UNCHANGED handles
    IN  /\ IF pre # "pass" THEN Fail("False")
           ELSE IF cmd.exc # "none" THEN Fail(cmd.exc)
           ELSE IF ~usable THEN Fail("False")
           ELSE \E io \in WriteOutcomes :
                    LET sent == IF io = "raise" THEN <<>>
                                ELSE IF io = "short"
                                THEN SubSeq(cmd.val, 1, Len(cmd.val) - 1)
                                ELSE cmd.val
                        slept == io \in {"ok", "short"}
                    IN  /\ handles' = [handles EXCEPT ![socket].log = Append(@, "cmd")]
                        /\ Finish(opname, a.positions_degrees,
                                  IF slept THEN "True" ELSE "False",
                                  cmd.val, sent,
                                  IF slept THEN SEND_DELAY_MS ELSE 0)
        /\ UNCHANGED <<kind, connected, socket, link, args, codecVars>>

\* the body shared by the facade calls, a being the four lists and the baud
\* rate that reach send_servo_positions; the caller's own position is left
\* to the action that makes the call
Send(opname, a) ==
    LET pre == send_precheck(connected, a)
        cmd == class_build_command(a)
        usable == socket # 0 /\ handles[socket].open /\ handles[socket].up
        Fail(r) == /\ Finish(opname, a.positions_degrees, r, <<>>, <<>>, 0)
                   /\ UNCHANGED handles
    IN  /\ IF pre # "pass" THEN Fail("False")
           ELSE IF cmd.exc # "none" THEN Fail(cmd.exc)
           ELSE IF ~usable THEN Fail("False")
           ELSE \E io \in WriteOutcomes :
                    LET sent == IF io = "raise" THEN <<>>
                                ELSE IF io = "short"
                                THEN SubSeq(cmd.val, 1, Len(cmd.val) - 1)
                                ELSE cmd.val
                        slept == io \in {"ok", "short"}
                    IN  /\ handles' = IF io = "raise" THEN handles
                                      ELSE [handles EXCEPT ![socket].log = Append(@, "cmd")]
                        /\ Finish(opname, a.positions_degrees,
                                  IF slept THEN "True" ELSE "False",
                                  cmd.val, sent,
                                  IF slept THEN SEND_DELAY_MS ELSE 0)
        /\ UNCHANGED <<kind, connected, socket, link, args, codecVars>>

\* the handle in use has room for one more recorded write
WithinWrites == IF socket = 0 THEN TRUE ELSE Len(handles[socket].log) <= MaxWrites

\* a facade call made on its own: nothing of the caller changes
FacadeCall(send) == WithinWrites /\ send /\ UNCHANGED <<pc, uiVars>>

send_servo_positions == FacadeCall(Send("send_servo_positions", args))

send_debug_precheck_strict(conn, a) ==
    IF ~conn THEN "not_connected"
    ELSE IF Cardinality({Len(a.motor_ids), Len(a.motor_types),
                         Len(a.positions_degrees), Len(a.velocities_rpm)}) > 1
    THEN "length"
    ELSE "pass"

\* the two early returns of send_servo_positions_debug
send_debug_precheck(conn, a) ==
    IF ~conn THEN "not_connected"
    ELSE IF /\ Len(a.motor_ids) # Len(a.motor_types)
            /\ Len(a.motor_types) # Len(a.positions_degrees)
            /\ Len(a.positions_degrees) # Len(a.velocities_rpm)
    THEN "length"
    ELSE "pass"

\* send_servo_positions_debug: its own checks, conversion loop, builder
\* calls and write; what it prints is not part of the state
send_servo_positions_debug ==
    LET opname == "send_servo_positions_debug"
        n == Len(args.motor_ids)
        Return(r) == /\ Finish(opname, args.positions_degrees, r, <<>>, <<>>, 0)
                     /\ UNCHANGED handles
        past_end == \E i \in 1..n : \/ i > Len(args.positions_degrees)
                                    \/ i > Len(args.motor_types)
                                    \/ i > Len(args.velocities_rpm)
        motor_data ==
            [i \in 1..n |->
                get_little_endian_bytes(
                    degrees_to_motor_value(args.positions_degrees[i],
                                           args.motor_types[i], TRUE))
                \o get_little_endian_bytes(
                    degrees_to_motor_value(args.velocities_rpm[i],
                                           args.motor_types[i], FALSE))]
        dynamixel_packet ==
            create_dynamixel_sync_write_packet(args.motor_ids, motor_data,
                                               GOAL_POSITION_ADDR, 4)
        luci_uart_packet == create_luci_uart_packet(args.baud_rate, dynamixel_packet.val)
        luci_packet == create_luci_packet(254, 0, luci_uart_packet)
        usable == socket # 0 /\ handles[socket].open /\ handles[socket].up
    IN  /\ IF send_debug_precheck(connected, args) # "pass" THEN Return("False")
           ELSE IF past_end THEN Return("IndexError")
           ELSE IF dynamixel_packet.exc # "none" THEN Return(dynamixel_packet.exc)
           ELSE IF luci_packet.exc # "none" THEN Return(luci_packet.exc)
           ELSE IF ~usable THEN Return("False")
           ELSE \E io \in WriteOutcomes :
                    \/ /\ io = "raise"
                       /\ UNCHANGED handles
                       /\ Finish(opname, args.positions_degrees, "False",
                                 luci_packet.val, <<>>, 0)
                    \/ /\ io = "flush_raise"
                       /\ handles' = [handles EXCEPT ![socket].log = Append(@, "cmd")]
                       /\ Finish(opname, args.positions_degrees, "False",
                                 luci_packet.val, luci_packet.val, 0)
                    \/ /\ io \in {"ok", "short"}
                       /\ handles' = [handles EXCEPT ![socket].log = Append(@, "cmd")]
                       /\ Finish(opname, args.positions_degrees, "True",
                                 luci_packet.val,
                                 IF io = "short"
                                 THEN Prefix(luci_packet.val, Len(luci_packet.val) - 1)
                                 ELSE luci_packet.val,
                                 SEND_DELAY_MS)
        /\ WithinWrites
        /\ UNCHANGED <<kind, connected, socket, link, args, pc, codecVars, uiVars>>

send_all_servos ==
    \E positions_degrees \in AllPositionsInputs :
        FacadeCall(Send("send_all_servos",
             [motor_ids |-> [i \in 1..12 |-> i],
              motor_types |-> [i \in 1..12 |-> MOTORTYPE_AX12],
              positions_degrees |-> positions_degrees,
              velocities_rpm |-> [i \in 1..12 |-> 30],
              baud_rate |-> args.baud_rate]))

move_to_neutral ==
    FacadeCall(Send("move_to_neutral",
         [motor_ids |-> [i \in 1..12 |-> i],
          motor_types |-> [i \in 1..12 |-> MOTORTYPE_AX12],
          positions_degrees |-> neutral_positions,
          velocities_rpm |-> [i \in 1..12 |-> 30],
          baud_rate |-> args.baud_rate]))

NoCodecCall == [op |-> "none"]

\* Connection life cycle: any sequence of connect, disconnect and
\* send_servo_positions, the ids and types lists of one length and the
\* positions and velocities lists of another
PairedArgInputs ==
    {a \in ArgInputs : /\ Len(a.motor_types) = Len(a.motor_ids)
                       /\ Len(a.velocities_rpm) = Len(a.positions_degrees)}

Init ==
    /\ kind \in {"tcp", "usb"}
    /\ ctl_init
    /\ ui_init
    /\ args \in PairedArgInputs
    /\ call = NoCodecCall
    /\ result = Pending

Next ==
    \/ connect
    \/ disconnect
    \/ send_servo_positions

Spec == Init /\ [][Next]_vars

\* Command facade: the caller connects once, then issues commands with
\* argument lists of every combination of lengths
first_connect == handles = <<>> /\ connect

InitFacade ==
    /\ kind \in {"tcp", "usb"}
    /\ ctl_init
    /\ ui_init
    /\ args \in ArgInputs
    /\ call = NoCodecCall
    /\ result = Pending

NextFacade ==
    \/ first_connect
    \/ disconnect
    \/ send_servo_positions
    \/ send_servo_positions_debug
    \/ send_all_servos
    \/ move_to_neutral

SpecFacade == InitFacade /\ [][NextFacade]_vars

----------------------------------------------------------------------------
(* The standalone script ls5_servo_control.py: its main block sets the     *)
(* servo's baud register, then its goal position, one connection each      *)

ScriptInputs == [servo_id : {1}, target_bps : {7000, 222222, 1000000},
                 desired_angle : 0..MaxAngle]

LuciSendOutcomes == {"connect_error", "send_error", "response", "timeout", "recv_error"}

\* send_luci_packet: a connection of its own for every packet, closed when
\* the with block is left; sendall that fails has sent an unknown part
send_luci_packet(luci_packet, done) ==
    \E outcome \in LuciSendOutcomes, part \in {0, Len(luci_packet) - 1} :
        LET got == outcome \in {"response", "timeout"}
            sent == IF outcome = "send_error" THEN Prefix(luci_packet, part)
                    ELSE luci_packet
            h == [open |-> FALSE, up |-> FALSE,
                  log |-> IF sent = <<>> THEN <<>> ELSE <<"cmd">>]
        IN  /\ outcome # "send_error" => part = 0
            /\ IF outcome = "connect_error"
               THEN /\ UNCHANGED handles
                    /\ Finish("send_luci_packet", <<>>, "OSError", <<>>, <<>>, 0)
               ELSE /\ handles' = Append(handles, h)
                    /\ Finish("send_luci_packet", <<>>,
                              CASE outcome = "response" -> "bytes"
                                [] outcome = "timeout" -> "empty"
                                [] OTHER -> "OSError",
                              luci_packet, sent, 0)
            /\ pc' = IF got THEN done ELSE "crashed"

\* baud_value = round((2000000.0 / target_bps) - 1.0), written to address 4
set_baud ==
    /\ pc = "start"
    /\ LET baud_value == RoundHalfEven(2000000 - args.target_bps, args.target_bps)
       IN  IF baud_value < 0 \/ baud_value > 254
           THEN /\ pc' = "crashed"
                /\ Finish("set_baud", <<>>, "ValueError", <<>>, <<>>, 0)
                /\ UNCHANGED handles
           ELSE send_luci_packet(
                    create_luci_general_packet(
                        254, build_write_packet(args.servo_id, 4, <<baud_value>>).val),
                    "baud_set")
    /\ UNCHANGED <<kind, connected, socket, link, args, codecVars, uiVars>>

\* the goal position of desired_angle, written to address 30
set_goal ==
    /\ pc = "baud_set"
    /\ LET pos == angle_deg_to_ax_position(args.desired_angle)
           pos_lo == pos % 256
           pos_hi == (pos \div 256) % 256
       IN  send_luci_packet(
               create_luci_general_packet(
                   254, build_write_packet(args.servo_id, 30, <<pos_lo, pos_hi>>).val),
               "goal_set")
    /\ UNCHANGED <<kind, connected, socket, link, args, codecVars, uiVars>>

InitScript ==
    /\ kind = "ls5"
    /\ connected = FALSE
    /\ socket = 0
    /\ handles = <<>>
    /\ link = "never"
    /\ last = NoCall
    /\ pc = "start"
    /\ ui_init
    /\ args \in ScriptInputs
    /\ call = NoCodecCall
    /\ result = Pending

NextScript ==
    \/ set_baud
    \/ set_goal

SpecScript == InitScript /\ [][NextScript]_vars

----------------------------------------------------------------------------
(* Command facade: claims C1 - C3 *)

SendOps == {"send_servo_positions", "send_all_servos", "move_to_neutral"}

ArgLengths == {Len(args.motor_ids), Len(args.motor_types),
               Len(args.positions_degrees), Len(args.velocities_rpm)}

\* C1 (as claimed): send_servo_positions on a connected controller with four
\* lists whose lengths are not all equal returns False and writes nothing to
\* the transport.
C1_UnequalLengthsRejected ==
    (last.op = "send_servo_positions" /\ connected /\ Cardinality(ArgLengths) > 1) =>
        (last.ret = "False" /\ last.wrote = <<>>)

\* C2: a send issued while the controller is not connected (never connected,
\* last connect failed, or disconnected since the last successful connect)
\* returns False and writes no bytes to any transport handle.
C2_NotConnectedSendFails ==
    (last.op = "send_servo_positions" /\ link # "up") =>
        (last.ret = "False" /\ last.wrote = <<>>)

C2_Witness ==
    /\ last.op = "send_servo_positions"
    /\ link = "closed"
    /\ socket # 0
    /\ Len(args.motor_ids) >= 1
    /\ Len(args.positions_degrees) < Len(args.motor_ids)
    /\ last.ret = "False" /\ last.wrote = <<>>

\* C3 (as claimed): every call to send_servo_positions, send_all_servos or
\* move_to_neutral returns True or False; none raises an exception.
C3_FacadeNeverRaises ==
    last.op \in SendOps => last.ret \in {"True", "False"}

----------------------------------------------------------------------------
(* Bus frame builders: claims C4 - C7 *)

SyncDone == Done("create_dynamixel_sync_write_packet")
WriteDone == Done("build_write_packet")

Last(f) == f[Len(f)]

\* every motor's data string has exactly data_length bytes
WellFormedEntries ==
    \A i \in 1..Len(call.motor_ids) :
        i <= Len(call.motor_data) => Len(call.motor_data[i]) = call.data_length

\* C4: in every SYNC_WRITE frame the builder returns, the last byte is
\* 255 - ((0xFE + length + 0x83 + startAddress + perMotorDataLength + body
\* bytes) mod 256), which is the checksum recomputed over the frame's bytes
\* from the target id to the last body byte.
C4_SyncChecksum ==
    (SyncDone /\ result.exc = "none") =>
        LET f == result.val
            n == Len(call.motor_ids)
        IN  /\ Last(f) = 255 - (SumSeq(SubSeq(f, 3, Len(f) - 1)) % 256)
            /\ Last(f) = 255 - ((254 + ((call.data_length + 1) * n + 4) + 131
                                 + call.start_address + call.data_length
                                 + SumSeq(SubSeq(f, 8, Len(f) - 1))) % 256)

C4_Witness ==
    /\ SyncDone /\ result.exc = "none"
    /\ Len(call.motor_ids) >= 2
    /\ SumSeq(SubSeq(result.val, 8, Len(result.val) - 1)) > 256
    /\ Last(result.val) # 0

\* C5: the SYNC_WRITE frame built for n entries of d data bytes each is
\* FF FF FE L 83 startAddress d, then per entry in input order the id and its
\* d data bytes, then one checksum byte, with L = (d+1)*n + 4 and L + 4 bytes
\* in total.
C5_SyncLayout ==
    (SyncDone /\ result.exc = "none" /\ WellFormedEntries) =>
        LET f == result.val
            n == Len(call.motor_ids)
            d == call.data_length
            L == (d + 1) * n + 4
        IN  /\ Len(f) = L + 4
            /\ SubSeq(f, 1, 7) = <<255, 255, 254, L, 131, call.start_address, d>>
            /\ \A k \in 1..n :
                /\ f[7 + (k - 1) * (d + 1) + 1] = call.motor_ids[k]
                /\ \A j \in 1..d :
                     f[7 + (k - 1) * (d + 1) + 1 + j] = call.motor_data[k][j]

C5_Witness ==
    /\ SyncDone /\ result.exc = "none" /\ WellFormedEntries
    /\ Len(call.motor_ids) >= 2
    /\ call.data_length >= 2
    /\ call.motor_ids[1] # call.motor_ids[2]
    /\ Len(result.val) = 4 + (call.data_length + 1) * Len(call.motor_ids) + 4

\* C6 (as claimed): the SYNC_WRITE builder returns no frame when the entry
\* list is empty or an entry's data length differs from perMotorDataLength.
C6_SyncRejectsMalformed ==
    (SyncDone /\ (Len(call.motor_ids) = 0 \/ ~WellFormedEntries)) =>
        result.exc # "none"

WriteFrame(servo_id, L, address, data) ==
    <<255, 255, servo_id, L, 3, address>> \o data
    \o <<255 - ((servo_id + L + 3 + address + SumSeq(data)) % 256)>>

\* C7 (as claimed): for every id and address in 0..255 and every data byte
\* sequence build_write_packet returns FF FF id L 03 address data... C with
\* L = len(data) + 3 and C = 255 - ((id + L + 3 + address + sum(data)) mod 256).
C7_WriteFrameAnyData ==
    (WriteDone /\ IsByte(call.servo_id) /\ IsByte(call.address)) =>
        /\ result.exc = "none"
        /\ result.val = WriteFrame(call.servo_id, Len(call.data) + 3,
                                   call.address, call.data)

\* C7 (amended): the same frame for data of at most 252 bytes; for longer
\* data the length byte holds (len(data) + 3) mod 256 and the checksum is
\* unchanged; id=1, address=4, data=[08] gives FF FF 01 04 03 04 08 EB.
C7_WriteFrame ==
    (WriteDone /\ IsByte(call.servo_id) /\ IsByte(call.address)) =>
        LET L == Len(call.data) + 3
            exact == WriteFrame(call.servo_id, L, call.address, call.data)
        IN  /\ result.exc = "none"
            /\ Len(call.data) <= 252 => result.val = exact
            /\ result.val = [exact EXCEPT ![4] = L % 256]
            /\ (call.servo_id = 1 /\ call.address = 4 /\ call.data = <<8>>)
                 => result.val = <<255, 255, 1, 4, 3, 4, 8, 235>>

C7_Witness ==
    /\ WriteDone
    /\ call.servo_id = 1 /\ call.address = 4 /\ call.data = <<8>>
    /\ result.val = <<255, 255, 1, 4, 3, 4, 8, 235>>

----------------------------------------------------------------------------
(* Unit converter: claims C8 - C10 *)

AXFamily == {MOTORTYPE_AX12, MOTORTYPE_AX18}
MXFamily == {MOTORTYPE_MX28, MOTORTYPE_MX64, MOTORTYPE_MX106}

Word(lo, hi) == lo + 256 * hi

\* C8 (as claimed): the facade's converter returns the family formula rounded
\* to the nearest integer: AX round(deg/300*1023), round(rpm/114*1023); MX
\* round(deg/360*4095), round(rpm/117*1023); 90 degrees on AX gives 307.
C8_ConverterRounds ==
    (Done("degrees_to_motor_value") /\ call.motor_type \in AXFamily \cup MXFamily) =>
        LET ax == call.motor_type \in AXFamily
            num == call.degrees * (IF call.is_position /\ ~ax THEN 4095 ELSE 1023)
            den == IF call.is_position THEN (IF ax THEN 300 ELSE 360)
                                       ELSE (IF ax THEN 114 ELSE 117)
        IN  /\ result.val = RoundHalfEven(num, den)
            /\ (ax /\ call.is_position /\ call.degrees = 90) => result.val = 307

\* C9 (as claimed): the value placed in a frame lies in [0, 1023] for AX
\* positions and all velocities and in [0, 4095] for MX positions; on AX,
\* -10 degrees gives 0 and 10000 degrees gives 1023.
C9_ConverterClamps ==
    (Done("motor_data_entry") /\ call.motor_type \in AXFamily \cup MXFamily) =>
        LET pos == Word(result.val[1], result.val[2])
            vel == Word(result.val[3], result.val[4])
            ax == call.motor_type \in AXFamily
        IN  /\ pos \in 0..(IF ax THEN 1023 ELSE 4095)
            /\ vel \in 0..1023
            /\ (ax /\ call.position_degrees = -10) => pos = 0
            /\ (ax /\ call.position_degrees = 10000) => pos = 1023

PairDone == Done("degrees_to_motor_value_pair") \/ Done("angle_deg_to_ax_position_pair")

\* C10: for a fixed motor family the degrees-to-position conversion is
\* monotonic non-decreasing: a <= b implies position(a) <= position(b).
C10_Monotonic ==
    (PairDone /\ call.a <= call.b) => result.val[1] <= result.val[2]

C10_Witness ==
    /\ Done("degrees_to_motor_value_pair")
    /\ call.a < 0 /\ call.b > 300
    /\ result.val[1] < result.val[2]

----------------------------------------------------------------------------
(* Unit converter: claim C11 *)

\* C11 (as claimed): an XL320 motor is converted with the AX scaling
\* (positions on 300 degrees / 0..1023, velocities on 114 RPM / 0..1023):
\* same degrees or RPM, same result as for an AX motor.
C11_XL320UsesAXScale ==
    /\ (Done("degrees_to_motor_value") /\ call.motor_type = MOTORTYPE_XL320) =>
           result.val = TruncDiv(call.degrees * 1023,
                                 IF call.is_position THEN 300 ELSE 114)
    /\ (Done("motor_data_entry") /\ call.motor_type = MOTORTYPE_XL320) =>
           result.val = motor_data_entry(call.position_degrees, call.velocity_rpm,
                                         MOTORTYPE_AX12)

----------------------------------------------------------------------------
(* Gateway envelope: claims C12 - C15 *)

LuciDone == Done("create_luci_packet") /\ call.mode \notin {4, 5}
GeneralDone == Done("create_luci_general_packet")

\* the 16-bit little-endian field at byte offsets 8..9 of an envelope
TotalLength(envelope) == Word(envelope[9], envelope[10])

\* C12: in every envelope built with a mode other than 4 or 5, by either
\* layout, the totalLength field at offsets 8..9 equals len(subPacket0) + 5,
\* subPacket0 being the payload after the header.
C12_TotalLengthEitherLayout ==
    /\ LuciDone => (result.exc = "none"
                    /\ TotalLength(result.val) = Len(call.packet0) + 5)
    /\ GeneralDone => TotalLength(result.val) = Len(call.payload) + 5

\* the position of a rate in the table 2000000, 1000000, 500000, 222222,
\* 117647, 100000, 57142, 9615, and 6 for a rate outside it
ExpectedBaudIndex(baud_rate) ==
    CASE baud_rate = 2000000 -> 0
      [] baud_rate = 1000000 -> 1
      [] baud_rate = 500000 -> 2
      [] baud_rate = 222222 -> 3
      [] baud_rate = 117647 -> 4
      [] baud_rate = 100000 -> 5
      [] baud_rate = 57142 -> 6
      [] baud_rate = 9615 -> 7
      [] OTHER -> 6

UartDone == Done("create_luci_uart_packet")

\* C13 (as claimed): subPacket0 of the serial-bridge layout is one baud-index
\* byte followed by the bus frame: its length is len(busFrame) + 1 and the
\* frame's first 0xFF is its second byte.
C13_OneBytePrefix ==
    UartDone =>
        /\ Len(result.val) = Len(call.uart_packet) + 1
        /\ result.val[1] = ExpectedBaudIndex(call.baud_rate)
        /\ result.val[2] = 255
        /\ SubSeq(result.val, 2, Len(result.val)) = call.uart_packet

\* C13 (amended): subPacket0 of the serial-bridge layout is a zero byte, the
\* baud-index byte and then the bus frame: its length is len(busFrame) + 2
\* and the frame's first 0xFF is its third byte.
C13_TwoBytePrefix ==
    UartDone =>
        /\ result.exc = "none"
        /\ Len(result.val) = Len(call.uart_packet) + 2
        /\ result.val[1] = 0
        /\ result.val[2] = ExpectedBaudIndex(call.baud_rate)
        /\ result.val[3] = 255
        /\ SubSeq(result.val, 3, Len(result.val)) = call.uart_packet

C13_Witness ==
    /\ UartDone
    /\ call.baud_rate = 222222
    /\ call.uart_packet = <<255, 255, 1, 5, 3, 30, 8, 108, 100>>
    /\ result.val = <<0, 3, 255, 255, 1, 5, 3, 30, 8, 108, 100>>

\* C14: for a module number in 0..65535, a mode other than 4 and 5 and every
\* subPacket0, the serial-bridge envelope is 00 00 02, the module number as
\* LE16, 00 00 00, totalLength as LE16, the mode byte, len(subPacket0) as
\* LE16, 00 00, then subPacket0: 15 + len(subPacket0) bytes.
C14_EnvelopeLayout ==
    (LuciDone /\ call.module_number \in 0..65535) =>
        LET m == call.module_number
            n == Len(call.packet0)
        IN  /\ result.exc = "none"
            /\ result.val = <<0, 0, 2, m % 256, m \div 256, 0, 0, 0,
                              (n + 5) % 256, (n + 5) \div 256, call.mode,
                              n % 256, n \div 256, 0, 0>> \o call.packet0
            /\ Len(result.val) = 15 + n

C14_Witness ==
    /\ LuciDone
    /\ call.module_number = 256 /\ call.mode = 255
    /\ Len(call.packet0) > 255
    /\ result.val[4] = 0 /\ result.val[5] = 1
    /\ result.val[10] = 1 /\ result.val[13] = 1
    /\ Len(result.val) = 15 + Len(call.packet0)

\* C15: baud-rate resolution is total: a rate of the table resolves to its
\* position 0..7, any other rate (4000000, say) to 6, the index of 57142;
\* no error is raised and the command is built with that index.
C15_BaudResolutionTotal ==
    /\ Done("get_baud_rate_index") =>
           (result.exc = "none" /\ result.val = ExpectedBaudIndex(call.baud_rate))
    /\ (Done("build_command") /\ \A i \in 1..Len(call.a.motor_ids) :
                                     IsByte(call.a.motor_ids[i])) =>
           /\ result.exc = "none"
           /\ result.val[16] = 0
           /\ result.val[17] = ExpectedBaudIndex(call.a.baud_rate)

C15_Witness ==
    /\ Done("build_command")
    /\ call.a.baud_rate = 4000000
    /\ Len(call.a.motor_ids) = 2
    /\ result.exc = "none"
    /\ result.val[17] = 6 /\ result.val[18] = 255

----------------------------------------------------------------------------
(* Transport: claims C16 - C20 *)

\* C16 (as claimed): on every TCP connection the program opens, the 10-byte
\* registration preamble is written exactly once, and before any command
\* envelope is written on that connection.
C16_PreambleFirstAndOnce ==
    kind # "usb" =>
        \A h \in 1..Len(handles) :
            LET log == handles[h].log
            IN  Len(log) > 0 => /\ log[1] = "reg"
                                /\ \A j \in 2..Len(log) : log[j] = "cmd"

\* C17 (as claimed): every write of a command envelope is followed by the
\* 35 ms delay before control returns to the caller.
C17_WriteThenDelay ==
    (last.op \in SendOps /\ last.wrote # <<>>) => last.delay = SEND_DELAY_MS

\* little-endian 16-bit encoding of a value, taken modulo 65536
LE16(v) == <<(v % 65536) % 256, (v % 65536) \div 256>>

\* the SYNC_WRITE frame for goal positions: start address 30, data length 4,
\* one entry [id, posLo, posHi, velLo, velHi] per motor in the order of ids
RECURSIVE ExpectedEntries(_, _, _, _)
ExpectedEntries(ids, pos, vel, i) ==
    IF i > Len(ids) THEN <<>>
    ELSE <<ids[i]>> \o LE16(pos[i]) \o LE16(vel[i]) \o ExpectedEntries(ids, pos, vel, i + 1)

ExpectedSyncFrame(ids, pos, vel) ==
    LET entries == ExpectedEntries(ids, pos, vel, 1)
        length == 5 * Len(ids) + 4
        sum == 254 + length + 131 + 30 + 4 + SumSeq(entries)
    IN  <<255, 255, 254, length, 131, 30, 4>> \o entries \o <<255 - (sum % 256)>>

\* the envelope of module 254 and mode 0 around [0, baud index, frame]
ExpectedEnvelope(baud_rate, frame) ==
    LET n == Len(frame) + 2
    IN  <<0, 0, 2, 254, 0, 0, 0, 0, (n + 5) % 256, (n + 5) \div 256,
          0, n % 256, n \div 256, 0, 0>>
        \o <<0, ExpectedBaudIndex(baud_rate)>> \o frame

\* the envelope send_servo_positions is to write for its arguments: the
\* positions and velocities of the first len(motor_ids) motors, converted
ExpectedCommand(a) ==
    LET n == Len(a.motor_ids)
    IN  ExpectedEnvelope(a.baud_rate,
            ExpectedSyncFrame(a.motor_ids,
                [i \in 1..n |-> degrees_to_motor_value(a.positions_degrees[i],
                                                       a.motor_types[i], TRUE)],
                [i \in 1..n |-> degrees_to_motor_value(a.velocities_rpm[i],
                                                       a.motor_types[i], FALSE)]))

\* C18: a send_servo_positions call that returns True has made one write to
\* the transport, of one envelope: module 254, mode 0, one SYNC_WRITE frame
\* with start address 30 and data length 4, its n entries in the order of
\* motor_ids, entry i carrying [posLo, posHi, velLo, velHi] of the converted
\* position and velocity of motor i.
C18_OneEnvelopePerSend ==
    [][(last'.op = "send_servo_positions" /\ last'.ret = "True") =>
           /\ handles'[socket].log = Append(handles[socket].log, "cmd")
           /\ \A h \in 1..Len(handles) : h # socket => handles'[h] = handles[h]
           /\ last'.packet = ExpectedCommand(args)
           /\ Len(last'.packet) = 25 + 5 * Len(args.motor_ids)
           /\ last'.wrote # <<>>
           /\ last'.wrote = Prefix(last'.packet, Len(last'.wrote))]_vars

C18_Witness ==
    /\ last.op = "send_servo_positions" /\ last.ret = "True"
    /\ args.motor_ids = <<11, 12>>
    /\ args.positions_degrees = <<-10, -20>>
    /\ args.baud_rate = 4000000
    /\ last.wrote = last.packet
    /\ SubSeq(last.packet, 16, 24) = <<0, 6, 255, 255, 254, 14, 131, 30, 4>>
    /\ SubSeq(last.packet, 25, 29) = <<11, 143, 255, 212, 6>>
    /\ handles[socket].log[Len(handles[socket].log)] = "cmd"

\* AX conversion of non-negative degrees and of 30 RPM
AxPosition(degrees) == (degrees * 1023) \div 300
AxVelocity30 == (30 * 1023) \div 114

TwelveMotorCommand(positions, baud_rate) ==
    ExpectedEnvelope(baud_rate,
        ExpectedSyncFrame([i \in 1..12 |-> i],
                          [i \in 1..12 |-> AxPosition(positions[i])],
                          [i \in 1..12 |-> AxVelocity30]))

\* C19: send_all_servos with 12 positions and no other arguments hands the
\* transport one SYNC_WRITE frame with start address 30 and data length 4
\* that has 12 entries, motor ids 1..12 in order, each converted as an AX
\* motor with velocity 30 RPM; move_to_neutral does so for the positions
\* 150, 90, 150, 150, 210, 150, 150, 90, 150, 150, 210, 150.
C19_TwelveMotorDefaults ==
    /\ (last.op = "send_all_servos" /\ Len(last.positions) = 12 /\ last.link = "up") =>
           /\ last.packet = TwelveMotorCommand(last.positions, args.baud_rate)
           /\ Len(last.packet) = 85
    /\ (last.op = "move_to_neutral" /\ last.link = "up") =>
           /\ last.positions = <<150, 90, 150, 150, 210, 150, 150, 90, 150, 150, 210, 150>>
           /\ last.packet = TwelveMotorCommand(last.positions, args.baud_rate)

C19_Witness ==
    /\ last.op = "move_to_neutral"
    /\ last.ret = "True"
    /\ last.wrote = last.packet
    /\ SubSeq(last.packet, 18, 24) = <<255, 255, 254, 64, 131, 30, 4>>
    /\ SubSeq(last.packet, 25, 34) = <<1, 255, 1, 13, 1, 2, 50, 1, 13, 1>>

\* C20 (as claimed): after any sequence of connect and disconnect calls at
\* most one transport handle opened by the controller is open, and after
\* disconnect none is.
C20_AtMostOneOpenHandle ==
    LET opened == {h \in 1..Len(handles) : handles[h].open}
    IN  /\ Cardinality(opened) <= 1
        /\ last.op = "disconnect" => opened = {}

----------------------------------------------------------------------------
(* Command facade and transport: claims C21, C22 *)

\* C21: when the transport write of a command envelope fails,
\* send_servo_positions returns False and neither retries the write nor
\* reconnects: the connected flag and the transport handle are as they were
\* before the call, and the call makes no write after the failed one.
C21_WriteFailureSurfaced ==
    [][(last'.op = "send_servo_positions" /\ last'.packet # <<>>
        /\ last'.ret # "True") =>
           /\ last'.ret = "False"
           /\ connected' = connected /\ socket' = socket /\ link' = link
           /\ Len(handles') = Len(handles)
           /\ \A h \in 1..Len(handles) :
                 /\ handles'[h].open = handles[h].open
                 /\ handles'[h].up = handles[h].up
                 /\ h # socket => handles'[h].log = handles[h].log
           /\ last'.wrote \in {<<>>, last'.packet}
           /\ handles'[socket].log = IF last'.wrote = <<>> THEN handles[socket].log
                                     ELSE Append(handles[socket].log, "cmd")]_vars

C21_Witness ==
    /\ last.op = "send_servo_positions"
    /\ last.ret = "False" /\ last.packet # <<>> /\ last.wrote = <<>>
    /\ kind = "tcp"
    /\ connected /\ handles[socket].open
    /\ handles[socket].log = <<"reg">>

\* C22: for the same controller state and arguments (and the same behaviour
\* of the transport) send_servo_positions_debug writes the same bytes and
\* returns the same result as send_servo_positions, the not-connected and
\* invalid-argument paths included: each of its steps is a step of
\* send_servo_positions.
C22_DebugSameAsSend ==
    [][last'.op = "send_servo_positions_debug" =>
           Send("send_servo_positions_debug", args)]_vars

C22_Witness ==
    /\ last.op = "send_servo_positions_debug"
    /\ last.ret = "True"
    /\ Len(args.motor_ids) = 1 /\ Len(args.positions_degrees) = 2
    /\ last.wrote = last.packet
    /\ Len(last.packet) = 30

----------------------------------------------------------------------------
(* Log text: what log_message inserts into the logs_text widget.  Text is  *)
(* a sequence of code points.                                              *)

NEWLINE == 10

\* datetime.now().strftime("%H:%M:%S") between brackets and a space: the
\* clock reads 10:00:00
Timestamp == <<91, 49, 48, 58, 48, 48, 58, 48, 48, 93, 32>>

\* logs_text.insert(END, f"[{timestamp}] {message}\n")
LogLine(message) == Timestamp \o message \o <<NEWLINE>>

Entries(text) == Cardinality({j \in 1..Len(text) : text[j] = NEWLINE})

\* str(n) of an int n >= 0, as an f-string formats it
RECURSIVE Decimal(_)
Decimal(n) == IF n < 10 THEN <<48 + n>> ELSE Decimal(n \div 10) \o <<48 + (n % 10)>>

\* str(x) of a float x with an integer value below 1e16: "150.0"
FloatRepr(n) == Decimal(n) \o <<46, 48>>

\* str(l) of a list of three ints: "[90, 90, 90]"
ListRepr(l) ==
    <<91>> \o Decimal(l[1]) \o <<44, 32>> \o Decimal(l[2]) \o <<44, 32>>
        \o Decimal(l[3]) \o <<93>>

\* port_var: "COM21"
LOG_PORT ==
    <<67, 79, 77, 50, 49>>

\* "Connected to "
MSG_CONNECTED_TO ==
    <<67, 111, 110, 110, 101, 99, 116, 101, 100, 32, 116, 111, 32>>

\* " at "
MSG_AT ==
    <<32, 97, 116, 32>>

\* " baud"
MSG_BAUD ==
    <<32, 98, 97, 117, 100>>

\* "Connection error: "
MSG_CONNECTION_ERROR ==
    <<67, 111, 110, 110, 101, 99, 116, 105, 111, 110, 32, 101, 114, 114, 111,
      114, 58, 32>>

\* "Disconnected from serial port"
MSG_DISCONNECTED ==
    <<68, 105, 115, 99, 111, 110, 110, 101, 99, 116, 101, 100, 32, 102, 114,
      111, 109, 32, 115, 101, 114, 105, 97, 108, 32, 112, 111, 114, 116>>

\* the text of the exception serial.Serial raises: "could not open port"
CouldNotOpen ==
    <<99, 111, 117, 108, 100, 32, 110, 111, 116, 32, 111, 112, 101, 110, 32,
      112, 111, 114, 116>>

\* "Read error: "
MSG_READ_ERROR ==
    <<82, 101, 97, 100, 32, 101, 114, 114, 111, 114, 58, 32>>

\* the text of the exception readline raises: "device disconnected"
PortClosed ==
    <<100, 101, 118, 105, 99, 101, 32, 100, 105, 115, 99, 111, 110, 110, 101,
      99, 116, 101, 100>>

\* ">>> [Ctrl+C] Interrupt signal sent"
MSG_INTERRUPT_SENT ==
    <<62, 62, 62, 32, 91, 67, 116, 114, 108, 43, 67, 93, 32, 73, 110, 116,
      101, 114, 114, 117, 112, 116, 32, 115, 105, 103, 110, 97, 108, 32, 115,
      101, 110, 116>>

\* "Interrupt send error: "
MSG_INTERRUPT_ERROR ==
    <<73, 110, 116, 101, 114, 114, 117, 112, 116, 32, 115, 101, 110, 100, 32,
      101, 114, 114, 111, 114, 58, 32>>

\* ">>> "
MSG_SENT ==
    <<62, 62, 62, 32>>

\* "(empty)"
MSG_EMPTY ==
    <<40, 101, 109, 112, 116, 121, 41>>

\* "Send error: "
MSG_SEND_ERROR ==
    <<83, 101, 110, 100, 32, 101, 114, 114, 111, 114, 58, 32>>

\* the text of the exception ser.write raises: "write failed"
WriteFailed ==
    <<119, 114, 105, 116, 101, 32, 102, 97, 105, 108, 101, 100>>

----------------------------------------------------------------------------
(* The log window: LS6LogsReader (ls6_logs_reader.py) and the logs panel   *)
(* of LS6IntegratedControl, whose connect, disconnect and read_serial are  *)
(* the same code.                                                          *)

\* bytes.decode("utf-8", errors="ignore"): a well-formed sequence gives its
\* code point, any other byte is dropped and decoding resumes at the next one
IsCont(b, lo, hi) == b # <<>> /\ Head(b) >= lo /\ Head(b) <= hi

RECURSIVE utf8_decode_ignore(_)
utf8_decode_ignore(b) ==
    IF b = <<>> THEN <<>>
    ELSE LET c == Head(b)
             r1 == Tail(b)
             r2 == IF r1 = <<>> THEN <<>> ELSE Tail(r1)
             r3 == IF r2 = <<>> THEN <<>> ELSE Tail(r2)
             r4 == IF r3 = <<>> THEN <<>> ELSE Tail(r3)
             lo2 == IF c = 224 THEN 160 ELSE IF c = 240 THEN 144 ELSE 128
             hi2 == IF c = 237 THEN 159 ELSE IF c = 244 THEN 143 ELSE 191
         IN  IF c < 128 THEN <<c>> \o utf8_decode_ignore(r1)
             ELSE IF c >= 194 /\ c <= 223 /\ IsCont(r1, 128, 191)
             THEN <<(c - 192) * 64 + (Head(r1) - 128)>> \o utf8_decode_ignore(r2)
             ELSE IF c >= 224 /\ c <= 239 /\ IsCont(r1, lo2, hi2) /\ IsCont(r2, 128, 191)
             THEN <<(c - 224) * 4096 + (Head(r1) - 128) * 64 + (Head(r2) - 128)>>
                  \o utf8_decode_ignore(r3)
             ELSE IF /\ c >= 240 /\ c <= 244 /\ IsCont(r1, lo2, hi2)
                     /\ IsCont(r2, 128, 191) /\ IsCont(r3, 128, 191)
             THEN <<(c - 240) * 262144 + (Head(r1) - 128) * 4096
                    + (Head(r2) - 128) * 64 + (Head(r3) - 128)>>
                  \o utf8_decode_ignore(r4)
             ELSE utf8_decode_ignore(r1)

\* str.isspace of one character
isspace(c) ==
    \/ c >= 9 /\ c <= 13
    \/ c >= 28 /\ c <= 32
    \/ c \in {133, 160, 5760, 8232, 8233, 8239, 8287, 12288}
    \/ c >= 8192 /\ c <= 8202

\* str.strip(): the text without its leading and trailing whitespace
strip_leading_only(text) ==
    LET keep == {i \in 1..Len(text) : ~isspace(text[i])}
    IN  IF keep = {} THEN <<>>
        ELSE SubSeq(text, CHOOSE i \in keep : \A j \in keep : i <= j, Len(text))

strip(text) ==
    LET keep == {i \in 1..Len(text) : ~isspace(text[i])}
    IN  IF keep = {} THEN <<>>
        ELSE SubSeq(text, CHOOSE i \in keep : \A j \in keep : i <= j,
                          CHOOSE i \in keep : \A j \in keep : i >= j)

\* what the device can put on the wire: readline returns the bytes up to and
\* including a newline, or what arrived before the 0.1 s timeout
ByteInputs == {65, 32, 255, 194, 195, 160}
LineInputs ==
    SeqsUpTo(ByteInputs, MaxLine)
        \cup {Append(l, NEWLINE) : l \in SeqsUpTo(ByteInputs, MaxLine - 1)}

\* what the connection entries hold and what opening the port can raise
LOG_BAUD == 57600
OpenErrorInputs == {CouldNotOpen}

\* the Tk main loop is running: the main thread is in no handler, or in the
\* message box a handler has opened, where after callbacks still run
MainLoopRuns == pc \in {"none", "open_error_box", "send_error_box", "servo_error_box"}

\* room in the log for one more line of the log port's handlers
LogRoom == Entries(logs_text) < 2 * MaxPorts

\* toggle_connection with is_connected false: connect, up to the store of
\* the opened port in self.ser.  No lock is held: the reader threads run
\* between this store and the two that follow.  When the port does not
\* open, the error is shown in a message box before it is logged
gui_connect ==
    /\ pc = "none"
    /\ ~is_connected
    /\ Len(ports) < MaxPorts
    /\ LogRoom
    /\ \E opened \in BOOLEAN :
         IF opened
         THEN /\ ports' = Append(ports, TRUE)
              /\ ser' = Len(ports) + 1
              /\ pc' = "connect_opened"
         ELSE /\ pc' = "open_error_box"
              /\ UNCHANGED <<ports, ser>>
    /\ UNCHANGED <<kind, connected, socket, handles, link, args, last, codecVars, seqVars,
                   is_connected, stop_reading, threads, wire, lastread, posted,
                   searchVars>>

\* connect: self.is_connected = True
connect_is_connected ==
    /\ pc = "connect_opened"
    /\ is_connected' = TRUE
    /\ pc' = "connect_connected"
    /\ UNCHANGED <<kind, connected, socket, handles, link, args, last, codecVars, seqVars,
                   ser, ports, stop_reading, threads, wire, lastread, posted, searchVars>>

\* connect: self.stop_reading = False
connect_stop_reading ==
    /\ pc = "connect_connected"
    /\ stop_reading' = FALSE
    /\ pc' = "connect_reading"
    /\ UNCHANGED <<kind, connected, socket, handles, link, args, last, codecVars, seqVars,
                   ser, ports, is_connected, threads, wire, lastread, posted, searchVars>>

\* connect: the line is logged, then the reader thread is started
connect_read_thread ==
    /\ pc = "connect_reading"
    /\ logs_text' = logs_text \o LogLine(MSG_CONNECTED_TO \o LOG_PORT \o MSG_AT
                                             \o Decimal(LOG_BAUD) \o MSG_BAUD)
    /\ threads' = Append(threads, [pc |-> "loop"])
    /\ pc' = "none"
    /\ UNCHANGED <<kind, connected, socket, handles, link, args, last, codecVars, seqVars,
                   ser, ports, is_connected, stop_reading, wire, lastread, posted,
                   search_entry, case_var, search_matches, current_match_index>>

\* the steps of connect after the port is stored
connect_stores == connect_is_connected \/ connect_stop_reading \/ connect_read_thread

\* the message box of connect is closed: the error is logged
open_error_box ==
    /\ pc = "open_error_box"
    /\ \E e \in OpenErrorInputs :
         logs_text' = logs_text \o LogLine(MSG_CONNECTION_ERROR \o e)
    /\ pc' = "none"
    /\ UNCHANGED <<kind, connected, socket, handles, link, args, last, codecVars, seqVars,
                   readerVars, search_entry, case_var, search_matches,
                   current_match_index>>

\* toggle_connection with is_connected true: disconnect
gui_disconnect ==
    /\ pc = "none"
    /\ is_connected
    /\ stop_reading' = TRUE
    /\ is_connected' = FALSE
    /\ ports' = IF ser # 0 /\ ports[ser] THEN [ports EXCEPT ![ser] = FALSE] ELSE ports
    /\ logs_text' = logs_text \o LogLine(MSG_DISCONNECTED)
    /\ UNCHANGED <<ctlVars, codecVars, seqVars, ser, threads, wire, lastread, posted,
                   search_entry, case_var, search_matches, current_match_index>>

\* the port is there to write to: the check at the head of send_interrupt
\* and send_command
PortOpen == is_connected /\ (IF ser = 0 THEN FALSE ELSE ports[ser])

\* send_interrupt: the byte 3 is written to the port, then logged
send_interrupt ==
    /\ pc = "none"
    /\ PortOpen
    /\ LogRoom
    /\ \E raised \in BOOLEAN :
         logs_text' = logs_text \o LogLine(IF raised THEN MSG_INTERRUPT_ERROR \o WriteFailed
                                           ELSE MSG_INTERRUPT_SENT)
    /\ UNCHANGED <<ctlVars, codecVars, seqVars, readerVars, search_entry, case_var,
                   search_matches, current_match_index>>

\* what the command entry holds: nothing, "a", " a"
CommandInputs == {<<>>, <<97>>, <<32, 97>>}

\* send_command: the entry's text and a newline are written to the port and
\* the stripped text is logged; when the write raises, the error is shown in
\* a message box before it is logged
send_command ==
    /\ pc = "none"
    /\ PortOpen
    /\ LogRoom
    /\ \E command \in CommandInputs, raised \in BOOLEAN :
         IF raised
         THEN pc' = "send_error_box" /\ UNCHANGED logs_text
         ELSE /\ logs_text' = logs_text \o LogLine(
                      MSG_SENT \o (IF strip(Append(command, NEWLINE)) # <<>>
                                   THEN strip(Append(command, NEWLINE))
                                   ELSE MSG_EMPTY))
              /\ UNCHANGED pc
    /\ UNCHANGED <<kind, connected, socket, handles, link, args, last, codecVars, seqVars,
                   readerVars, search_entry, case_var, search_matches,
                   current_match_index>>

\* the message box of send_command is closed: the error is logged
send_error_box ==
    /\ pc = "send_error_box"
    /\ logs_text' = logs_text \o LogLine(MSG_SEND_ERROR \o WriteFailed)
    /\ pc' = "none"
    /\ UNCHANGED <<kind, connected, socket, handles, link, args, last, codecVars, seqVars,
                   readerVars, search_entry, case_var, search_matches,
                   current_match_index>>

\* the main loop runs the oldest callback a reader thread handed to
\* root.after: log_message with the text
after_log_message ==
    /\ MainLoopRuns
    /\ posted # <<>>
    /\ LogRoom
    /\ logs_text' = logs_text \o LogLine(Head(posted).text)
    /\ posted' = Tail(posted)
    /\ UNCHANGED <<ctlVars, codecVars, seqVars, ser, ports, is_connected, stop_reading,
                   threads, wire, lastread, search_entry, case_var, search_matches,
                   current_match_index>>

\* read_serial at the head of its loop: the while condition, then the test of
\* self.ser that leads to readline or to break
loop_condition == ~stop_reading /\ is_connected

read_loop(t) ==
    /\ threads[t].pc = "loop"
    /\ threads' = [threads EXCEPT ![t] =
                     IF ~loop_condition THEN [pc |-> "done"]
                     ELSE IF ser # 0 /\ ports[ser] THEN [pc |-> "read"]
                     ELSE [pc |-> "done"]]
    /\ UNCHANGED <<ctlVars, codecVars, seqVars, searchVars, ser, ports, is_connected,
                   stop_reading, wire, lastread, posted>>

\* self.ser.readline(): self.ser is read again, the port is the one the
\* window holds now.  readline returns the line, or nothing at the timeout,
\* or raises; on a port closed since the test it raises or returns nothing.
\* A line is decoded, stripped and handed to root.after when not empty; the
\* handler of a raised exception hands over the error unless stop_reading is
\* set, then sleeps
ReadOutcomes(p) ==
    IF p # 0 /\ ports[p] THEN {"line", "timeout", "raise"} ELSE {"timeout", "raise"}

\* root.after(0, self.log_message, ...): one more callback waits for the
\* main loop
Post(message) == Len(posted) < MaxPosted /\ posted' = Append(posted, message)

read_line(t) ==
    /\ threads[t].pc = "read"
    /\ \E outcome \in ReadOutcomes(ser) :
         LET line == IF outcome = "line" THEN wire ELSE <<>>
             text == strip(utf8_decode_ignore(line))
         IN  IF outcome = "raise"
             THEN /\ lastread' = [thread |-> t, line |-> <<>>, raised |-> TRUE]
                  /\ IF ~stop_reading
                     THEN Post([by |-> t, what |-> "error",
                                text |-> MSG_READ_ERROR \o PortClosed])
                     ELSE UNCHANGED posted
                  /\ threads' = [threads EXCEPT ![t] = [pc |-> "sleep"]]
             ELSE /\ lastread' = [thread |-> t, line |-> line, raised |-> FALSE]
                  /\ IF line # <<>> /\ text # <<>>
                     THEN Post([by |-> t, what |-> "text", text |-> text])
                     ELSE UNCHANGED posted
                  /\ threads' = [threads EXCEPT ![t] = [pc |-> "loop"]]
    /\ UNCHANGED <<ctlVars, codecVars, seqVars, searchVars, ser, ports, is_connected,
                   stop_reading, wire>>

\* the end of time.sleep(0.1) in the exception handler
read_sleep_retry(t) ==
    /\ threads[t].pc = "sleep"
    /\ threads' = [threads EXCEPT ![t] = [pc |-> "read"]]
    /\ UNCHANGED <<ctlVars, codecVars, seqVars, searchVars, ser, ports, is_connected,
                   stop_reading, wire, lastread, posted>>

read_sleep(t) ==
    /\ threads[t].pc = "sleep"
    /\ threads' = [threads EXCEPT ![t] = [pc |-> "loop"]]
    /\ UNCHANGED <<ctlVars, codecVars, seqVars, searchVars, ser, ports, is_connected,
                   stop_reading, wire, lastread, posted>>

\* one step of reader thread t
read_serial(t) ==
    /\ t \in 1..Len(threads)
    /\ \/ read_loop(t)
       \/ read_line(t)
       \/ read_sleep(t)

ThreadIds == 1..MaxPorts

\* One connection: the user connects once and may disconnect; the device
\* sends any line
first_gui_connect == ports = <<>> /\ gui_connect

InitReader ==
    /\ kind = "usb"
    /\ ctl_init
    /\ seq_init
    /\ reader_init
    /\ wire \in LineInputs
    /\ search_init
    /\ args = NoArgs
    /\ call = NoCodecCall
    /\ result = Pending

NextReader ==
    \/ first_gui_connect
    \/ connect_stores
    \/ open_error_box
    \/ gui_disconnect
    \/ \E t \in ThreadIds : read_serial(t)

SpecReader == InitReader /\ [][NextReader]_vars

\* Connections in succession: the user connects and disconnects at will
WireInputs == {<<65, NEWLINE>>, <<255, NEWLINE>>}

InitThreads ==
    /\ kind = "usb"
    /\ ctl_init
    /\ seq_init
    /\ reader_init
    /\ wire \in WireInputs
    /\ search_init
    /\ args = NoArgs
    /\ call = NoCodecCall
    /\ result = Pending

NextThreads ==
    \/ gui_connect
    \/ connect_stores
    \/ open_error_box
    \/ gui_disconnect
    \/ \E t \in ThreadIds : read_serial(t)

SpecThreads == InitThreads /\ [][NextThreads]_vars

\* the interpreter schedules every live thread, readline returns or raises
\* within its timeout and sleep ends: a reader step that stays possible is taken
SpecThreadsFair ==
    SpecThreads /\ \A t \in ThreadIds : WF_vars(read_serial(t))

----------------------------------------------------------------------------
(* The reader thread: claims C24, C25, C26 *)

\* the characters a line of one- and two-byte forms holds: position i starts
\* a character when it is an ASCII byte or a two-byte lead followed by a
\* continuation byte
StartsChar(line, i) ==
    \/ line[i] < 128
    \/ /\ line[i] >= 194 /\ line[i] <= 223
       /\ i < Len(line) /\ line[i + 1] >= 128 /\ line[i + 1] <= 191

CharAt(line, i) ==
    IF line[i] < 128 THEN line[i] ELSE (line[i] - 192) * 64 + line[i + 1] - 128

DecodableText(line) ==
    LET S == {i \in 1..Len(line) : StartsChar(line, i)}
    IN  [k \in 1..Cardinality(S) |->
            CharAt(line, CHOOSE i \in S : Cardinality({j \in S : j <= i}) = k)]

\* the part of a text between its first and its last non-blank character
Trimmed(text) ==
    IF \A i \in 1..Len(text) : isspace(text[i]) THEN <<>>
    ELSE CHOOSE u \in {SubSeq(text, a, b) : a, b \in 1..Len(text)} :
            /\ u # <<>>
            /\ ~isspace(u[1]) /\ ~isspace(u[Len(u)])
            /\ \E a \in 1..(Len(text) - Len(u) + 1) :
                 /\ u = SubSeq(text, a, a + Len(u) - 1)
                 /\ \A i \in 1..Len(text) : (i < a \/ i >= a + Len(u)) => isspace(text[i])

\* C24: whatever bytes readline returns, the reader posts the decodable
\* characters of the line without surrounding blanks, posts nothing when
\* none is left, posts an error only when readline raised, and stays in
\* its loop: no exception ends the thread
C24_UndecodableBytesDropped ==
    [][\A t \in ThreadIds :
         (t <= Len(threads) /\ threads[t].pc = "read" /\ threads'[t].pc # "read") =>
             LET expected == Trimmed(DecodableText(lastread'.line))
             IN  /\ lastread'.thread = t
                 /\ threads'[t].pc = IF lastread'.raised THEN "sleep" ELSE "loop"
                 /\ ~lastread'.raised =>
                        posted' = IF expected = <<>> THEN posted
                                  ELSE Append(posted, [by |-> t, what |-> "text",
                                                       text |-> expected])
                 /\ (posted' # posted /\ posted'[Len(posted')].what = "error")
                        => lastread'.raised]_vars

\* a line with an undecodable byte before a letter was read and the letter
\* handed to the main loop
C24_Witness ==
    /\ lastread = [thread |-> 1, line |-> <<255, 65, NEWLINE>>, raised |-> FALSE]
    /\ posted = <<[by |-> 1, what |-> "text", text |-> <<65>>]>>
    /\ threads[1].pc = "loop"

\* C25: a reader thread reads only from the port opened by the connect that
\* started it: after disconnect and connect the earlier thread does not take
\* up the newly opened port, every readline of thread t is a call on port t
C25_OnlyOwnPortRead ==
    [][\A t \in ThreadIds :
         (t <= Len(threads) /\ threads[t].pc = "read" /\ threads'[t].pc # "read") =>
             ser = t]_vars

\* C26: once disconnect has set stop_reading, every reader thread ends,
\* unless a later connect clears the flag first
Ended(t) == t <= Len(threads) /\ threads[t].pc = "done"

C26_ReaderTerminates ==
    \A t \in ThreadIds :
        (t <= Len(threads) /\ stop_reading) ~> (Ended(t) \/ ~stop_reading)

\* the port was closed while the thread was in readline, the call raised and
\* the thread has ended
C26_Witness ==
    /\ stop_reading
    /\ threads[1].pc = "done"
    /\ lastread = [thread |-> 1, line |-> <<>>, raised |-> TRUE]
    /\ ~is_connected

----------------------------------------------------------------------------
(* The two controller classes: claim C27 *)

\* C27: for the same argument lists and baud rate the TCP class and the USB
\* class build the same envelope, byte for byte, or raise the same exception
C27_SameEnvelopeBothClasses ==
    /\ Done("usb_build_command") => result = build_command(call.a)
    /\ Done("build_command") => result = usb_build_command(call.a)

\* the USB class has built the 35-byte envelope of a two-motor command at a
\* baud rate that is not the default one
C27_Witness ==
    /\ Done("usb_build_command")
    /\ result.exc = "none"
    /\ Len(call.a.motor_ids) = 2
    /\ call.a.baud_rate = 1000000
    /\ Len(result.val) = 35
    /\ result.val[17] = 1

----------------------------------------------------------------------------
(* Short writes: claim C28 *)

\* C28: when the TCP controller's send_servo_positions returns True, the
\* socket has accepted every byte of the envelope
C28_TrueMeansAllWritten ==
    (kind = "tcp" /\ last.op = "send_servo_positions" /\ last.ret = "True")
        => last.wrote = last.packet

----------------------------------------------------------------------------
(* Large batches: claim C29 *)

\* the call is a batch of n >= 1 distinct ids from 1..252 with four data
\* bytes for every motor
IsBatch ==
    LET n == Len(call.motor_ids)
    IN  /\ n >= 1
        /\ call.data_length = 4
        /\ Len(call.motor_data) = n
        /\ \A i \in 1..n : /\ call.motor_ids[i] \in 1..252
                           /\ Len(call.motor_data[i]) = 4
                           /\ \A j \in 1..4 : IsByte(call.motor_data[i][j])
        /\ \A i, j \in 1..n : call.motor_ids[i] = call.motor_ids[j] => i = j
        /\ IsByte(call.start_address)

\* C29 as stated: for every such batch the builder returns a frame whose
\* length byte holds (4 + 1) * n + 4
C29_LengthByteAnyBatch ==
    (SyncDone /\ IsBatch) =>
        /\ result.exc = "none"
        /\ result.val[4] = (4 + 1) * Len(call.motor_ids) + 4

\* C29, amended: for batches of up to 50 motors the builder returns a frame
\* of 5n + 8 bytes whose length byte holds (4 + 1) * n + 4; from 51 motors on
\* the value exceeds 255 and the builder raises ValueError
C29_LengthByte ==
    (SyncDone /\ IsBatch) =>
        LET n == Len(call.motor_ids)
        IN  IF (4 + 1) * n + 4 <= 255
            THEN /\ result.exc = "none"
                 /\ Len(result.val) = 5 * n + 8
                 /\ result.val[4] = (4 + 1) * n + 4
            ELSE result = Raised("ValueError")

\* the largest batch that fits: 50 motors, length byte 254
C29_Witness ==
    /\ SyncDone /\ IsBatch
    /\ Len(call.motor_ids) = 50
    /\ result.exc = "none"
    /\ result.val[4] = 254

----------------------------------------------------------------------------
(* The log window's search: log_message, clear_logs, clear_search,         *)
(* search_text, search_next and search_previous.  A position of the text   *)
(* widget is the pair <<line, column>>, lines counted from 1, columns      *)
(* from 0; the end of a match is kept as "pos+nc", here <<pos, n>>.        *)

Lower(c) == IF c >= 65 /\ c <= 90 THEN c + 32 ELSE c

\* the term stands at offset k of the text
MatchesAt(text, term, k, nocase) ==
    /\ k + Len(term) - 1 <= Len(text)
    /\ \A j \in 1..Len(term) :
         IF nocase THEN Lower(text[k + j - 1]) = Lower(term[j])
                   ELSE text[k + j - 1] = term[j]

\* logs_text.search(term, start, END, nocase): the first match at or after
\* start, 0 when there is none
text_search(text, term, start, nocase) ==
    LET hits == {k \in start..Len(text) : MatchesAt(text, term, k, nocase)}
    IN  IF hits = {} THEN 0 ELSE Min(hits)

\* the index "line.column" of offset k
TkIndex(text, k) ==
    LET nl == {j \in 1..(k - 1) : text[j] = NEWLINE}
    IN  <<1 + Cardinality(nl),
          IF nl = {} THEN k - 1
          ELSE k - 1 - (CHOOSE j \in nl : \A i \in nl : i <= j)>>

\* the while loop of search_text: each search starts at the end of the
\* match before it
RECURSIVE find_matches(_, _, _, _)
find_matches(text, term, start, nocase) ==
    LET k == text_search(text, term, start, nocase)
    IN  IF k = 0 THEN <<>>
        ELSE <<<<TkIndex(text, k), <<TkIndex(text, k), Len(term)>>>>>>
             \o find_matches(text, term, k + Len(term), nocase)

\* what is written into the log and typed into the search entry
MessageInputs == {<<97>>, <<65, 97>>}
TermInputs == SeqsUpTo({97, 48}, MaxTerm)

\* logs_text.insert(END, "[HH:MM:SS] message\n")
log_message ==
    /\ Entries(logs_text) < MaxEntries
    /\ \E message \in MessageInputs :
         logs_text' = logs_text \o LogLine(message)
    /\ UNCHANGED <<ctlVars, codecVars, seqVars, readerVars, search_entry, case_var,
                   search_matches, current_match_index>>

\* the user changes the content of the search entry
edit_search_entry ==
    /\ \E term \in TermInputs : term # search_entry /\ search_entry' = term
    /\ UNCHANGED <<ctlVars, codecVars, seqVars, readerVars, logs_text, case_var,
                   search_matches, current_match_index>>

\* the body of search_text: matches and index are reset, then filled from
\* the text when the term is not empty; case_sensitive is what case_var.get()
\* returns
search_text_state(case_sensitive) ==
    LET found == IF search_entry = <<>> THEN <<>>
                 ELSE find_matches(logs_text, search_entry, 1, ~case_sensitive)
    IN  /\ search_matches' = found
        /\ current_match_index' = IF Len(found) > 0 THEN 0 ELSE -1

\* the user ticks or unticks the case-sensitive box, whose command is
\* search_text
toggle_case ==
    /\ case_var' = ~case_var
    /\ search_text_state(~case_var)
    /\ UNCHANGED <<ctlVars, codecVars, seqVars, readerVars, logs_text, search_entry>>

clear_search_state ==
    /\ search_entry' = <<>>
    /\ search_matches' = <<>>
    /\ current_match_index' = -1

clear_search ==
    /\ clear_search_state
    /\ UNCHANGED <<ctlVars, codecVars, seqVars, readerVars, logs_text, case_var>>

clear_logs ==
    /\ logs_text' = <<>>
    /\ clear_search_state
    /\ UNCHANGED <<ctlVars, codecVars, seqVars, readerVars, case_var>>

search_text ==
    /\ search_text_state(case_var)
    /\ UNCHANGED <<ctlVars, codecVars, seqVars, readerVars, logs_text, search_entry, case_var>>

search_next_nowrap ==
    /\ IF search_matches = <<>> THEN search_text_state(case_var)
       ELSE /\ current_match_index' = current_match_index + 1
            /\ UNCHANGED search_matches
    /\ UNCHANGED <<ctlVars, codecVars, seqVars, readerVars, logs_text, search_entry, case_var>>

search_next ==
    /\ IF search_matches = <<>> THEN search_text_state(case_var)
       ELSE /\ current_match_index' = IF current_match_index < Len(search_matches) - 1
                                      THEN current_match_index + 1
                                      ELSE 0
            /\ UNCHANGED search_matches
    /\ UNCHANGED <<ctlVars, codecVars, seqVars, readerVars, logs_text, search_entry, case_var>>

search_previous ==
    /\ IF search_matches = <<>> THEN search_text_state(case_var)
       ELSE /\ current_match_index' = IF current_match_index > 0
                                      THEN current_match_index - 1
                                      ELSE Len(search_matches) - 1
            /\ UNCHANGED search_matches
    /\ UNCHANGED <<ctlVars, codecVars, seqVars, readerVars, logs_text, search_entry, case_var>>

InitSearch ==
    /\ kind = "usb"
    /\ ctl_init
    /\ ui_init
    /\ args = NoArgs
    /\ call = NoCodecCall
    /\ result = Pending

NextSearch ==
    \/ log_message
    \/ edit_search_entry
    \/ toggle_case
    \/ clear_search
    \/ clear_logs
    \/ search_text
    \/ search_next
    \/ search_previous

SpecSearch == InitSearch /\ [][NextSearch]_vars

\* C30: current_match_index is -1 when search_matches is empty and an index
\* of search_matches otherwise; search_next from the last match goes to the
\* first, search_previous from the first goes to the last
IndexInRange ==
    IF search_matches = <<>> THEN current_match_index = -1
    ELSE current_match_index >= 0 /\ current_match_index < Len(search_matches)

C30_SearchIndexInRange ==
    /\ IndexInRange
    /\ [][/\ IndexInRange'
          /\ (search_next /\ search_matches # <<>>
                /\ current_match_index = Len(search_matches) - 1)
                 => current_match_index' = 0
          /\ (search_previous /\ search_matches # <<>> /\ current_match_index = 0)
                 => current_match_index' = Len(search_matches) - 1]_vars

\* a search for "00" has found the two matches of every time stamp and the
\* current match is the last one
C30_Witness ==
    /\ search_entry = <<48, 48>>
    /\ Len(search_matches) = 4
    /\ current_match_index = 3
    /\ search_matches[4] = <<<<2, 7>>, <<<<2, 7>>, 2>>>>

----------------------------------------------------------------------------
(* The log port of the window, every handler: connections in succession,  *)
(* the reader threads, the callbacks they hand to the main loop, the       *)
(* command entry, the interrupt button and the Clear Logs button           *)

\* the Clear Logs button, the main thread being idle
idle_clear_logs == pc = "none" /\ logs_text # <<>> /\ clear_logs

NextLogPort ==
    \/ gui_connect
    \/ connect_stores
    \/ open_error_box
    \/ gui_disconnect
    \/ send_interrupt
    \/ send_command
    \/ send_error_box
    \/ after_log_message
    \/ idle_clear_logs
    \/ \E t \in ThreadIds : read_serial(t)

SpecLogPort == InitThreads /\ [][NextLogPort]_vars

----------------------------------------------------------------------------
(* Command sequences.  kind = "tcp": the main block of                     *)
(* robot_servo_control.py, a script that connects, sends three commands,   *)
(* runs the animated sweep, returns to neutral and disconnects.            *)
(* kind = "usb": the servo panel of the integrated window                  *)
(* (ls6_servo_control_integrated.py), whose button handlers drive a        *)
(* RobotServoControllerUSB from the Tk main thread and write what they do  *)
(* into the log.  pc is the position in the main block, or the handler     *)
(* the main thread is in ("none": the window is idle).                     *)

\* for angle in range(90, 210, 10)
SweepAngles == [i \in 1..12 |-> 80 + 10 * i]

\* positions = [180, 120, 150]
TestPositions == <<180, 120, 150>>

\* the arguments that reach send_servo_positions from send_all_servos
AllServosArgs(positions_degrees) ==
    [motor_ids |-> [i \in 1..12 |-> i],
     motor_types |-> [i \in 1..12 |-> MOTORTYPE_AX12],
     positions_degrees |-> positions_degrees,
     velocities_rpm |-> [i \in 1..12 |-> 30],
     baud_rate |-> 57142]

\* one motor of type AX12
OneMotorArgs(motor_id, position, velocity) ==
    [motor_ids |-> <<motor_id>>,
     motor_types |-> <<MOTORTYPE_AX12>>,
     positions_degrees |-> <<position>>,
     velocities_rpm |-> <<velocity>>,
     baud_rate |-> 57142]

(* The main block of robot_servo_control.py *)

MainTry == {"example1", "example2", "example3", "example4", "sequence", "example5"}

\* controller.connect(); exit(1) when it returns False
main_connect ==
    /\ kind = "tcp"
    /\ pc = "none"
    /\ handles = <<>>
    /\ connect_tcp
    /\ pc' = IF connected' THEN "example1" ELSE "exit"
    /\ UNCHANGED uiVars

\* the controller call of the try block the script is at
MainCalls == {"example1", "example2", "example3", "sequence", "example5"}

MainCall ==
    CASE pc = "example2" ->
           \* controller.send_all_servos(positions, velocities_rpm=[30.0] * 12)
           [op |-> "send_all_servos",
            a |-> AllServosArgs(<<150, 90, 150, 150, 210, 150, 150, 90, 150, 150, 210, 150>>)]
      [] pc = "example3" ->
           \* controller.send_servo_positions([1, 2, 3], [AX12] * 3,
           \* [180, 120, 180], [30.0] * 3)
           [op |-> "send_servo_positions",
            a |-> [motor_ids |-> <<1, 2, 3>>,
                   motor_types |-> <<MOTORTYPE_AX12, MOTORTYPE_AX12, MOTORTYPE_AX12>>,
                   positions_degrees |-> <<180, 120, 180>>,
                   velocities_rpm |-> <<30, 30, 30>>,
                   baud_rate |-> 57142]]
      [] pc = "sequence" ->
           \* controller.send_all_servos([angle] * 12)
           [op |-> "send_all_servos", a |-> AllServosArgs(Twelve(Head(pending)))]
      [] OTHER ->
           \* controller.move_to_neutral()
           [op |-> "move_to_neutral", a |-> AllServosArgs(neutral_positions)]

\* example 1: controller.move_to_neutral()
main_move_to_neutral ==
    /\ kind = "tcp"
    /\ pc = "example1"
    /\ Send(MainCall.op, MainCall.a)
    /\ pc' = "example2"
    /\ UNCHANGED uiVars

\* example 2: controller.send_all_servos(positions, velocities_rpm=[30.0] * 12)
main_send_all_servos ==
    /\ kind = "tcp"
    /\ pc = "example2"
    /\ Send(MainCall.op, MainCall.a)
    /\ pc' = "example3"
    /\ UNCHANGED uiVars

\* example 3: controller.send_servo_positions([1, 2, 3], [AX12] * 3,
\* [180, 120, 180], [30.0] * 3)
main_send_servo_positions ==
    /\ kind = "tcp"
    /\ pc = "example3"
    /\ Send(MainCall.op, MainCall.a)
    /\ pc' = "example4"
    /\ UNCHANGED uiVars

\* example 5: controller.move_to_neutral(), the last statement of the try
main_return_to_neutral ==
    /\ kind = "tcp"
    /\ pc = "example5"
    /\ Send(MainCall.op, MainCall.a)
    /\ pc' = "finally"
    /\ UNCHANGED uiVars

\* where a KeyboardInterrupt can reach the main thread inside a controller
\* call, which catches Exception only: before the packet is built, in
\* socket.send before a byte is taken, once the socket has taken the packet
\* or a part of it (the end of socket.send, in time.sleep(0.035)), or when
\* the sleep has ended and the call is about to return True.  The call does
\* not return
InterruptPoints == {"build", "send", "sleep", "sleep_short", "return", "return_short"}

Interrupted(opname, a) ==
    LET cmd == class_build_command(a)
        sendable == /\ send_precheck(connected, a) = "pass"
                    /\ cmd.exc = "none"
                    /\ (IF socket = 0 THEN FALSE
                        ELSE handles[socket].open /\ handles[socket].up)
    IN  \E at \in InterruptPoints :
            /\ at # "build" => sendable
            /\ handles' = IF at \in {"build", "send"} THEN handles
                          ELSE [handles EXCEPT ![socket].log = Append(@, "cmd")]
            /\ Finish(opname, a.positions_degrees, "KeyboardInterrupt",
                      IF at = "build" THEN <<>> ELSE cmd.val,
                      IF at \in {"sleep", "return"} THEN cmd.val
                      ELSE IF at \in {"sleep_short", "return_short"}
                      THEN SubSeq(cmd.val, 1, Len(cmd.val) - 1)
                      ELSE <<>>,
                      IF at \in {"return", "return_short"} THEN SEND_DELAY_MS ELSE 0)

\* Ctrl-C anywhere in the try block: KeyboardInterrupt leaves it for the
\* except clause, then the finally clause.  It arrives between two
\* statements of the main block (in one of its own time.sleep calls), or
\* inside the controller call the script is at
keyboard_interrupt_try ==
    /\ kind = "tcp"
    /\ pc \in MainTry
    /\ \/ UNCHANGED <<handles, last>>
       \/ /\ pc \in MainCalls
          /\ Interrupted(MainCall.op, MainCall.a)
    /\ pc' = "finally"
    /\ pending' = <<>>
    /\ UNCHANGED <<kind, connected, socket, link, args, codecVars, stop,
                   readerVars, searchVars>>

\* where a KeyboardInterrupt can reach the script before its try block.
\* "start": before controller.connect() is called.  In connect, outside the
\* two inner try blocks the exception passes except Exception and ends the
\* process with no disconnect: before the socket exists ("socket"), when
\* socket.socket() has returned and self.socket is not yet assigned
\* ("created": the object is finalized), while it connects ("connect"),
\* connected and before the registration is sent ("register"), in the
\* fallback send after the first send raised, before a byte is taken, or in
\* the handler of except Exception after both sends raised ("fallback"), in
\* time.sleep(0.5) after the registration went out ("sleep"), when the
\* sleep has ended and self.connected is not yet True ("slept"), after
\* self.connected = True ("print").  In the first inner try the bare except
\* takes it for a failed send and sends the registration again ("send": the
\* socket had taken the first one); before a byte was taken that is the
\* fallback run of connect, and in the recv try the run that succeeds
ConnectInterruptPoints == {"start", "socket", "created", "connect", "register", "send",
                           "fallback", "sleep", "slept", "print"}

keyboard_interrupt_connect ==
    /\ kind = "tcp"
    /\ pc = "none"
    /\ handles = <<>>
    /\ \/ \E at \in ConnectInterruptPoints, first \in {"ok", "short"},
             second \in {"ok", "short", "raise"} :
           LET took(io) == IF io = "ok" THEN register_packet
                           ELSE IF io = "short"
                           THEN SubSeq(register_packet, 1, Len(register_packet) - 1)
                           ELSE <<>>
               again == at = "send" /\ second # "raise"
               sent == at \in {"send", "sleep", "slept", "print"}
               handed == sent \/ at = "fallback"
               ok == again \/ at = "print"
               h == [open |-> at # "created",
                     up |-> at \notin {"created", "connect"},
                     log |-> IF ~sent THEN <<>>
                             ELSE IF again THEN <<"reg", "reg">>
                             ELSE <<"reg">>]
           IN  /\ ~sent => first = "ok"
               /\ at # "send" => second = "ok"
               /\ IF at = "start"
                  THEN UNCHANGED <<connected, socket, handles, link, last>>
                  ELSE /\ socket' = IF at \in {"socket", "created"} THEN 0 ELSE 1
                       /\ handles' = IF at = "socket" THEN <<>> ELSE <<h>>
                       /\ connected' = ok
                       /\ link' = IF ok THEN "up" ELSE "failed"
                       /\ Finish("connect", <<>>,
                                 IF at # "send" THEN "KeyboardInterrupt"
                                 ELSE IF again THEN "True" ELSE "False",
                                 IF handed THEN register_packet ELSE <<>>,
                                 IF ~sent THEN <<>>
                                 ELSE IF at = "send" THEN took(first) \o took(second)
                                 ELSE took(first),
                                 IF again \/ at \in {"slept", "print"}
                                 THEN CONNECT_DELAY_MS ELSE 0)
               /\ pc' = IF at # "send" THEN "killed"
                        ELSE IF again THEN "example1" ELSE "exit"
       \* connect() has returned False: Ctrl-C in the prints before exit(1)
       \/ /\ connect_tcp
          /\ ~connected'
          /\ pc' = "killed"
    /\ UNCHANGED <<kind, args, codecVars, uiVars>>

\* where a KeyboardInterrupt can reach the finally clause.  "before":
\* before controller.disconnect() is called; "entry": in disconnect before
\* its try; "close": on entering socket.close, where the bare except
\* swallows it and disconnect goes on with the socket left open; "closed":
\* after the try and before self.connected = False; "print": in the print
\* that ends disconnect; "returned": when disconnect has returned.  When
\* socket.close has closed the socket and the bare except swallows the
\* exception, disconnect goes on as it does without one (main_finally)
FinallyInterruptPoints == {"before", "entry", "close", "closed", "print", "returned"}

keyboard_interrupt_finally ==
    /\ kind = "tcp"
    /\ pc = "finally"
    /\ \E at \in FinallyInterruptPoints :
         /\ handles' = IF at \in {"closed", "print", "returned"} /\ socket # 0
                       THEN [handles EXCEPT ![socket].open = FALSE, ![socket].up = FALSE]
                       ELSE handles
         /\ IF at \in {"close", "print", "returned"}
            THEN /\ connected' = FALSE
                 /\ link' = IF link = "up" THEN "closed" ELSE link
            ELSE UNCHANGED <<connected, link>>
         /\ IF at = "before"
            THEN UNCHANGED last
            ELSE Finish("disconnect", <<>>,
                        IF at \in {"close", "returned"} THEN "None"
                        ELSE "KeyboardInterrupt",
                        <<>>, <<>>, 0)
         /\ pc' = IF at = "close" THEN "done" ELSE "killed"
    /\ UNCHANGED <<kind, socket, args, codecVars, uiVars>>

\* Ctrl-C while the script runs
keyboard_interrupt ==
    \/ keyboard_interrupt_connect
    \/ keyboard_interrupt_try
    \/ keyboard_interrupt_finally

\* finally: controller.disconnect()
main_finally ==
    /\ kind = "tcp"
    /\ pc = "finally"
    /\ Disconnect
    /\ pc' = "done"
    /\ UNCHANGED uiVars

(* The servo panel of the integrated window *)

\* servo_port_var: "COM20"
SERVO_PORT ==
    <<67, 79, 77, 50, 48>>

\* "Servo controller connected to "
MSG_SERVO_CONNECTED_TO ==
    <<83, 101, 114, 118, 111, 32, 99, 111, 110, 116, 114, 111, 108, 108, 101,
      114, 32, 99, 111, 110, 110, 101, 99, 116, 101, 100, 32, 116, 111, 32>>

\* f"Servo connection error: {e}", e being Exception("Connection failed")
MSG_SERVO_CONNECTION_FAILED ==
    <<83, 101, 114, 118, 111, 32, 99, 111, 110, 110, 101, 99, 116, 105, 111,
      110, 32, 101, 114, 114, 111, 114, 58, 32, 67, 111, 110, 110, 101, 99,
      116, 105, 111, 110, 32, 102, 97, 105, 108, 101, 100>>

\* "Servo controller disconnected"
MSG_SERVO_DISCONNECTED ==
    <<83, 101, 114, 118, 111, 32, 99, 111, 110, 116, 114, 111, 108, 108, 101,
      114, 32, 100, 105, 115, 99, 111, 110, 110, 101, 99, 116, 101, 100>>

\* "Moving all servos to neutral position..."
MSG_MOVING_NEUTRAL ==
    <<77, 111, 118, 105, 110, 103, 32, 97, 108, 108, 32, 115, 101, 114, 118,
      111, 115, 32, 116, 111, 32, 110, 101, 117, 116, 114, 97, 108, 32, 112,
      111, 115, 105, 116, 105, 111, 110, 46, 46, 46>>

\* "(check mark) Neutral position command sent successfully"
MSG_NEUTRAL_SENT ==
    <<10003, 32, 78, 101, 117, 116, 114, 97, 108, 32, 112, 111, 115, 105,
      116, 105, 111, 110, 32, 99, 111, 109, 109, 97, 110, 100, 32, 115, 101,
      110, 116, 32, 115, 117, 99, 99, 101, 115, 115, 102, 117, 108, 108, 121>>

\* "(ballot x) Failed to send neutral position command"
MSG_NEUTRAL_FAILED ==
    <<10007, 32, 70, 97, 105, 108, 101, 100, 32, 116, 111, 32, 115, 101, 110,
      100, 32, 110, 101, 117, 116, 114, 97, 108, 32, 112, 111, 115, 105, 116,
      105, 111, 110, 32, 99, 111, 109, 109, 97, 110, 100>>

\* "Testing motor 1..."
MSG_TESTING_MOTOR_1 ==
    <<84, 101, 115, 116, 105, 110, 103, 32, 109, 111, 116, 111, 114, 32, 49,
      46, 46, 46>>

\* "  Motor 1 moved to "
MSG_MOTOR_1_MOVED_TO ==
    <<32, 32, 77, 111, 116, 111, 114, 32, 49, 32, 109, 111, 118, 101, 100,
      32, 116, 111, 32>>

\* "  Failed to move motor 1 to "
MSG_MOTOR_1_FAILED_TO ==
    <<32, 32, 70, 97, 105, 108, 101, 100, 32, 116, 111, 32, 109, 111, 118,
      101, 32, 109, 111, 116, 111, 114, 32, 49, 32, 116, 111, 32>>

\* the degree sign
MSG_DEGREE ==
    <<176>>

\* "Testing all motors..."
MSG_TESTING_ALL ==
    <<84, 101, 115, 116, 105, 110, 103, 32, 97, 108, 108, 32, 109, 111, 116,
      111, 114, 115, 46, 46, 46>>

\* "(check mark) All motors moved to 180(degree sign)"
MSG_ALL_MOVED ==
    <<10003, 32, 65, 108, 108, 32, 109, 111, 116, 111, 114, 115, 32, 109,
      111, 118, 101, 100, 32, 116, 111, 32, 49, 56, 48, 176>>

\* "(ballot x) Failed to move all motors"
MSG_ALL_FAILED ==
    <<10007, 32, 70, 97, 105, 108, 101, 100, 32, 116, 111, 32, 109, 111, 118,
      101, 32, 97, 108, 108, 32, 109, 111, 116, 111, 114, 115>>

\* "Moving motor "
MSG_MOVING_MOTOR ==
    <<77, 111, 118, 105, 110, 103, 32, 109, 111, 116, 111, 114, 32>>

\* " to "
MSG_TO ==
    <<32, 116, 111, 32>>

\* "(degree sign) at "
MSG_DEGREE_AT ==
    <<176, 32, 97, 116, 32>>

\* " RPM..."
MSG_RPM ==
    <<32, 82, 80, 77, 46, 46, 46>>

\* "(check mark) Motor "
MSG_MOTOR_SENT_HEAD ==
    <<10003, 32, 77, 111, 116, 111, 114, 32>>

\* " command sent successfully"
MSG_MOTOR_SENT_TAIL ==
    <<32, 99, 111, 109, 109, 97, 110, 100, 32, 115, 101, 110, 116, 32, 115,
      117, 99, 99, 101, 115, 115, 102, 117, 108, 108, 121>>

\* "(ballot x) Failed to send command to motor "
MSG_MOTOR_FAILED ==
    <<10007, 32, 70, 97, 105, 108, 101, 100, 32, 116, 111, 32, 115, 101, 110,
      100, 32, 99, 111, 109, 109, 97, 110, 100, 32, 116, 111, 32, 109, 111,
      116, 111, 114, 32>>

\* "Moving all servos to preset positions: "
MSG_MOVING_PRESET ==
    <<77, 111, 118, 105, 110, 103, 32, 97, 108, 108, 32, 115, 101, 114, 118,
      111, 115, 32, 116, 111, 32, 112, 114, 101, 115, 101, 116, 32, 112, 111,
      115, 105, 116, 105, 111, 110, 115, 58, 32>>

\* "..."
MSG_ELLIPSIS ==
    <<46, 46, 46>>

\* "(check mark) All servos command sent successfully"
MSG_PRESET_SENT ==
    <<10003, 32, 65, 108, 108, 32, 115, 101, 114, 118, 111, 115, 32, 99, 111,
      109, 109, 97, 110, 100, 32, 115, 101, 110, 116, 32, 115, 117, 99, 99,
      101, 115, 115, 102, 117, 108, 108, 121>>

\* "(ballot x) Failed to send command to all servos"
MSG_PRESET_FAILED ==
    <<10007, 32, 70, 97, 105, 108, 101, 100, 32, 116, 111, 32, 115, 101, 110,
      100, 32, 99, 111, 109, 109, 97, 110, 100, 32, 116, 111, 32, 97, 108,
      108, 32, 115, 101, 114, 118, 111, 115>>

\* what the servo entries hold when the window opens, and the first of the
\* four preset buttons
SERVO_BAUD == 57600
MotorIdInputs == {1}
PositionInputs == {150}
VelocityInputs == {30}
PresetInputs == {90}

\* the main thread is idle, no click is waiting and the log has room for
\* the lines a handler writes
Idle(lines) ==
    /\ kind = "usb"
    /\ pc = "none"
    /\ ~stop
    /\ Entries(logs_text) + lines <= MaxLogLines

\* a handler that checks servo_connected first and returns when it is false
Ready(lines) == Idle(lines) /\ connected

\* toggle_servo_connection with servo_connected false: connect_servos makes a
\* new RobotServoControllerUSB, whose ser is None, and calls its connect; the
\* controller it replaces is dropped with the serial object it may still hold.
\* When connect returns False, the error is shown in a message box before it
\* is logged
connect_servos ==
    /\ Idle(1)
    /\ ~connected
    /\ Len(handles) < MaxHandles
    /\ \E outcome \in UsbConnectOutcomes, finalized \in BOOLEAN :
        LET ok == outcome = "ok"
            h == [open |-> TRUE, up |-> TRUE, log |-> <<>>]
        IN  /\ IF outcome = "open_error"
               THEN /\ socket' = 0
                    /\ handles' = Drop(handles, socket, finalized)
               ELSE /\ socket' = Len(handles) + 1
                    /\ handles' = Append(Drop(handles, socket, finalized), h)
            /\ connected' = ok
            /\ link' = IF ok THEN "up" ELSE "failed"
            /\ Finish("connect", <<>>, IF ok THEN "True" ELSE "False", <<>>, <<>>,
                      IF ok THEN CONNECT_DELAY_MS ELSE 0)
            /\ IF ok
               THEN /\ logs_text' = logs_text \o LogLine(
                           MSG_SERVO_CONNECTED_TO \o SERVO_PORT \o MSG_AT
                               \o Decimal(SERVO_BAUD) \o MSG_BAUD)
                    /\ UNCHANGED pc
               ELSE /\ pc' = "servo_error_box"
                    /\ UNCHANGED logs_text
    /\ UNCHANGED <<kind, args, codecVars, seqVars, readerVars, search_entry,
                   case_var, search_matches, current_match_index>>

\* the message box of connect_servos is closed: the error is logged
servo_error_box ==
    /\ kind = "usb"
    /\ pc = "servo_error_box"
    /\ logs_text' = logs_text \o LogLine(MSG_SERVO_CONNECTION_FAILED)
    /\ pc' = "none"
    /\ UNCHANGED <<kind, connected, socket, handles, link, args, last, codecVars, seqVars,
                   readerVars, search_entry, case_var, search_matches,
                   current_match_index>>

\* the Clear Logs button of the window, pressed while the log is short and
\* the connection has written little
panel_clear_logs ==
    /\ kind = "usb"
    /\ pc = "none"
    /\ ~stop
    /\ logs_text # <<>>
    /\ Entries(logs_text) < MaxEntries
    /\ WithinWrites
    /\ clear_logs

\* toggle_servo_connection with servo_connected true: disconnect_servos, also
\* the handler of a click that waited for a running handler to return
disconnect_servos ==
    /\ kind = "usb"
    /\ pc = "none"
    /\ connected
    /\ handles' = IF socket # 0
                  THEN [handles EXCEPT ![socket].open = FALSE, ![socket].up = FALSE]
                  ELSE handles
    /\ socket' = 0
    /\ connected' = FALSE
    /\ link' = IF link = "up" THEN "closed" ELSE link
    /\ Finish("disconnect", <<>>, "None", <<>>, <<>>, 0)
    /\ stop' = FALSE
    /\ logs_text' = logs_text \o LogLine(MSG_SERVO_DISCONNECTED)
    /\ UNCHANGED <<kind, args, pc, codecVars, pending, readerVars, search_entry,
                   case_var, search_matches, current_match_index>>

\* the body of the window's move_to_neutral past its check of servo_connected
NeutralBody ==
    /\ Send("move_to_neutral", AllServosArgs(neutral_positions))
    /\ logs_text' = logs_text \o LogLine(MSG_MOVING_NEUTRAL)
                        \o LogLine(IF last'.ret = "True" THEN MSG_NEUTRAL_SENT
                                   ELSE MSG_NEUTRAL_FAILED)
    /\ UNCHANGED <<seqVars, readerVars, search_entry, case_var, search_matches,
                   current_match_index>>

gui_move_to_neutral ==
    /\ Ready(2)
    /\ NeutralBody
    /\ UNCHANGED pc

\* test_all_motors up to its time.sleep(2): the command for 180 degrees
test_all_motors ==
    /\ Ready(4)
    /\ Send("send_all_servos", AllServosArgs(Twelve(180)))
    /\ logs_text' = logs_text \o LogLine(MSG_TESTING_ALL)
                        \o LogLine(IF last'.ret = "True" THEN MSG_ALL_MOVED
                                   ELSE MSG_ALL_FAILED)
    /\ pc' = IF last'.ret = "True" THEN "test_all" ELSE "none"
    /\ UNCHANGED <<seqVars, readerVars, search_entry, case_var, search_matches,
                   current_match_index>>

\* test_all_motors after the sleep: self.move_to_neutral()
test_all_motors_neutral ==
    /\ kind = "usb"
    /\ pc = "test_all"
    /\ NeutralBody
    /\ pc' = "none"

\* move_single_motor with entries that parse and pass the range checks; the
\* position and the velocity are floats.  A ValueError raised by the command
\* is shown in a message box, not in the log
move_single_motor ==
    /\ Ready(2)
    /\ \E motor_id \in MotorIdInputs, position \in PositionInputs,
          velocity \in VelocityInputs :
         /\ Send("send_servo_positions", OneMotorArgs(motor_id, position, velocity))
         /\ logs_text' = logs_text
                \o LogLine(MSG_MOVING_MOTOR \o Decimal(motor_id) \o MSG_TO
                           \o FloatRepr(position) \o MSG_DEGREE_AT
                           \o FloatRepr(velocity) \o MSG_RPM)
                \o (IF last'.ret = "True"
                    THEN LogLine(MSG_MOTOR_SENT_HEAD \o Decimal(motor_id)
                                 \o MSG_MOTOR_SENT_TAIL)
                    ELSE IF last'.ret = "False"
                    THEN LogLine(MSG_MOTOR_FAILED \o Decimal(motor_id))
                    ELSE <<>>)
    /\ UNCHANGED <<pc, seqVars, readerVars, search_entry, case_var, search_matches,
                   current_match_index>>

\* a preset button: the window's send_all_servos([p] * 12)
gui_send_all_servos ==
    /\ Ready(2)
    /\ \E p \in PresetInputs :
         /\ Send("send_all_servos", AllServosArgs(Twelve(p)))
         /\ logs_text' = logs_text
                \o LogLine(MSG_MOVING_PRESET \o ListRepr(<<p, p, p>>) \o MSG_ELLIPSIS)
                \o LogLine(IF last'.ret = "True" THEN MSG_PRESET_SENT
                           ELSE MSG_PRESET_FAILED)
    /\ UNCHANGED <<pc, seqVars, readerVars, search_entry, case_var, search_matches,
                   current_match_index>>

(* The two loops *)

\* the loop is entered: the sweep of the main block after example 3,
\* test_motor_1 after its check of servo_connected and its first log line
start_sequence ==
    /\ IF kind = "tcp"
       THEN /\ pc = "example4"
            /\ pending' = SweepAngles
            /\ UNCHANGED logs_text
       ELSE /\ Ready(4)
            /\ pending' = TestPositions
            /\ logs_text' = logs_text \o LogLine(MSG_TESTING_MOTOR_1)
    /\ pc' = "sequence"
    /\ stop' = FALSE
    /\ UNCHANGED <<kind, connected, socket, handles, link, args, last, codecVars,
                   readerVars, search_entry, case_var, search_matches,
                   current_match_index>>

\* one pass of the loop body: the command for the next value, the log line
\* of test_motor_1, then the sleep
sequence_step ==
    /\ pc = "sequence"
    /\ pending # <<>>
    /\ IF kind = "tcp"
       THEN /\ Send(MainCall.op, MainCall.a)
            /\ UNCHANGED logs_text
       ELSE /\ Send("send_servo_positions", OneMotorArgs(1, Head(pending), 30))
            /\ logs_text' = logs_text \o LogLine(
                   (IF last'.ret = "True" THEN MSG_MOTOR_1_MOVED_TO
                    ELSE MSG_MOTOR_1_FAILED_TO)
                   \o Decimal(Head(pending)) \o MSG_DEGREE)
    /\ pending' = Tail(pending)
    /\ pc' = IF Tail(pending) # <<>> THEN "sequence"
             ELSE IF kind = "tcp" THEN "example5" ELSE "none"
    /\ UNCHANGED <<stop, readerVars, search_entry, case_var, search_matches,
                   current_match_index>>

\* the user clicks the servo connection button while a handler sleeps
\* between two commands: Tk queues the click, toggle_servo_connection runs
\* once the main thread is idle again
request_stop ==
    /\ kind = "usb"
    /\ pc \in {"sequence", "test_all"}
    /\ ~stop
    /\ stop' = TRUE
    /\ UNCHANGED <<kind, connected, socket, handles, link, args, last, pc, codecVars,
                   pending, readerVars, searchVars>>

\* the end of a run: the main block's finally clause, the window's
\* disconnect_servos
end_disconnect == main_finally \/ disconnect_servos

InitSequence ==
    /\ kind \in {"tcp", "usb"}
    /\ ctl_init
    /\ ui_init
    /\ args = NoArgs
    /\ call = NoCodecCall
    /\ result = Pending

NextSequence ==
    \/ main_connect
    \/ main_move_to_neutral
    \/ main_send_all_servos
    \/ main_send_servo_positions
    \/ main_return_to_neutral
    \/ keyboard_interrupt
    \/ connect_servos
    \/ servo_error_box
    \/ panel_clear_logs
    \/ gui_move_to_neutral
    \/ test_all_motors
    \/ test_all_motors_neutral
    \/ move_single_motor
    \/ gui_send_all_servos
    \/ start_sequence
    \/ sequence_step
    \/ request_stop
    \/ end_disconnect

SpecSequence == InitSequence /\ [][NextSequence]_vars

\* C23: once the stop request is set, no command after the one in flight is
\* written: while the request stands, no handle's write log grows
C23_NoCommandAfterStop ==
    [][stop => \A h \in 1..Len(handles) : handles'[h].log = handles[h].log]_vars

============================================================================
